---- MODULE Spec2Model ----
(***************************************************************************)
(* RemoteLab streaming core: the adaptive bitrate controller               *)
(* (src-tauri/src/quality), the QUIC transport                             *)
(* (src-tauri/src/transport/quic.rs) and the video packet codec            *)
(* (src-tauri/src/transport/protocol.rs).                                  *)
(*                                                                         *)
(* Units: bitrates in bit/s, times in ms, bandwidth samples in kbit/s,     *)
(* input loss rates in 1/10000 (so 0.05 is 500).                           *)
(***************************************************************************)
EXTENDS Integers, Sequences, FiniteSets, TLC

----------------------------------------------------------------------------
(* Bounds of the model *)

MaxUpdates == 2
MaxManual == 1
MaxTicks == 5
MaxConnects == 1
MaxPings == 1

MaxCalls == 5

MaxSends == 2
MaxWait == 11
MaxData == 2

----------------------------------------------------------------------------
(* f32 arithmetic, done on integers.  An f32 has a 24 bit significand;     *)
(* conversions and products round to nearest, ties to even.                *)

Pow2(n) == 2 ^ n

RECURSIVE BitLen(_)
BitLen(n) == IF n = 0 THEN 0 ELSE 1 + BitLen(n \div 2)

Min(a, b) == IF a <= b THEN a ELSE b

Max(a, b) == IF a >= b THEN a ELSE b

(* `n as f32` for a u32 n: the nearest value with 24 significant bits *)
F32OfU32(n) ==
    LET L == BitLen(n)
    IN  IF L <= 24 THEN n
        ELSE LET s    == L - 24
                 q    == n \div Pow2(s)
                 r    == n % Pow2(s)
                 half == Pow2(s - 1)
                 up   == r > half \/ (r = half /\ q % 2 = 1)
             IN  (IF up THEN q + 1 ELSE q) * Pow2(s)

(* the exact product of two 24 bit significands, as <<hi, lo>> standing   *)
(* for hi * 2^24 + lo; the partial products of 12 bit limbs stay below    *)
(* 2^31                                                                    *)
F32Product(M, C) ==
    LET Mh  == M \div 4096
        Ml  == M % 4096
        Ch  == C \div 4096
        Cl  == C % 4096
        mid == Mh * Cl + Ml * Ch
        lot == (mid % 4096) * 4096 + Ml * Cl
    IN  <<Mh * Ch + (mid \div 4096) + (lot \div Pow2(24)), lot % Pow2(24)>>

(* the product p = <<hi, lo>>, whose hi has Lh bits, rounded to a 24 bit  *)
(* significand: nearest, ties to even                                      *)
F32Round(p, Lh) ==
    LET m0   == IF Lh = 0 THEN p[2]
                ELSE p[1] * Pow2(24 - Lh) + (p[2] \div Pow2(Lh))
        rem  == IF Lh = 0 THEN 0 ELSE p[2] % Pow2(Lh)
        half == IF Lh = 0 THEN 1 ELSE Pow2(Lh - 1)
    IN  IF rem > half \/ (rem = half /\ m0 % 2 = 1) THEN m0 + 1 ELSE m0

(* `as u32` of the significand m scaled by 2^x *)
F32Trunc(m, x) == IF x >= 0 THEN m * Pow2(x) ELSE m \div Pow2(0 - x)

(* `(v * c) as u32` where v is an f32 holding an integer and the f32       *)
(* constant c is C / 2^cexp with 2^23 <= C < 2^24: the significand of v    *)
(* is v / 2^s, the 48 bit product is rounded to 24 bits, then truncated    *)
(* (each stage is computed once and handed on as a value)                  *)
F32Scaled(p, s, cexp) ==
    CHOOSE r \in {F32Trunc(F32Round(p, Lh), Lh + s - cexp) :
                      Lh \in {BitLen(p[1])}} : TRUE

F32MulShift(v, s, C, cexp) ==
    CHOOSE r \in {F32Scaled(p, s, cexp) :
                      p \in {F32Product(v \div Pow2(s), C)}} : TRUE

F32MulTrunc(v, C, cexp) ==
    CHOOSE r \in {F32MulShift(w, Max(BitLen(w) - 24, 0), C, cexp) :
                      w \in {v}} : TRUE

(* the f32 constants 0.9, 0.7 and 1.05 as significand / 2^exponent *)
F32_0_9 == <<15099494, 24>>

F32_0_7 == <<11744051, 24>>

F32_1_05 == <<8808038, 23>>

MulF(n, c) == F32MulTrunc(F32OfU32(n), c[1], c[2])

----------------------------------------------------------------------------
(* quality/mod.rs *)

QualitySettings_default ==
    [bitrate |-> 20000000, fps |-> 60, qp |-> 28,
     resolution |-> <<1920, 1080>>, codec |-> "H264"]

(* u32::clamp *)
Clamp(x, lo, hi) == IF x < lo THEN lo ELSE IF x > hi THEN hi ELSE x

----------------------------------------------------------------------------
(* quality/monitor.rs : NetworkMonitor *)

RttWindow == 100

BandwidthWindow == 60

(* u32::MAX / 1000: the largest sum of bandwidth samples, in kbit/s, that  *)
(* still fits a u32 in bit/s                                               *)
U32MaxKbps == 4294967

RECURSIVE SumSeq(_)
SumSeq(s) == IF s = <<>> THEN 0 ELSE Head(s) + SumSeq(Tail(s))

RECURSIVE SumSq(_)
SumSq(s) == IF s = <<>> THEN 0 ELSE Head(s) * Head(s) + SumSq(Tail(s))

Abs(x) == IF x < 0 THEN 0 - x ELSE x

NetworkMonitor_new ==
    [rtt_samples |-> <<>>, jitter_samples |-> <<>>, loss_count |-> 0,
     total_packets |-> 0, bandwidth_samples |-> <<>>]

Trim(s, cap) == IF Len(s) > cap THEN Tail(s) ELSE s

record_rtt(m, rtt_ms) ==
    LET rs == Append(m.rtt_samples, rtt_ms)
        js == IF Len(rs) >= 2
              THEN Append(m.jitter_samples, Abs(rtt_ms - rs[Len(rs) - 1]))
              ELSE m.jitter_samples
    IN  [m EXCEPT !.rtt_samples = Trim(rs, RttWindow),
                  !.jitter_samples = Trim(js, RttWindow)]

record_loss(m) ==
    [m EXCEPT !.loss_count = @ + 1, !.total_packets = @ + 1]

RECURSIVE record_losses(_, _)
record_losses(m, n) == IF n = 0 THEN m ELSE record_losses(record_loss(m), n - 1)

record_success(m) == [m EXCEPT !.total_packets = @ + 1]

record_bandwidth_sample(m, bw) ==
    [m EXCEPT !.bandwidth_samples = Trim(Append(@, bw), BandwidthWindow)]

monitor_reset(m) == NetworkMonitor_new

(* mean of the RTT samples, as the fraction <<sum, count>> *)
calculate_rtt(m) ==
    IF m.rtt_samples = <<>> THEN <<0, 1>>
    ELSE <<SumSeq(m.rtt_samples), Len(m.rtt_samples)>>

(* variance of the jitter samples, as the fraction <<n*sum(x^2) - sum(x)^2, *)
(* n^2>>; calculate_jitter returns its square root                         *)
calculate_jitter(m) ==
    LET n == Len(m.jitter_samples)
        S == SumSeq(m.jitter_samples)
    IN  IF n < 2 THEN <<0, 1>>
        ELSE <<n * SumSq(m.jitter_samples) - S * S, n * n>>

calculate_loss_rate(m) ==
    IF m.total_packets = 0 THEN <<0, 1>>
    ELSE <<m.loss_count, m.total_packets>>

(* the u32 sum of the samples overflows *)
estimate_bandwidth_overflows(m) == SumSeq(m.bandwidth_samples) > U32MaxKbps

get_stats(m) ==
    [rtt_ms |-> calculate_rtt(m), jitter_var |-> calculate_jitter(m),
     loss_rate |-> calculate_loss_rate(m)]

(* comparisons of the f32 statistics with the controller's thresholds;     *)
(* with integer samples and at most RttWindow of them the quotients are    *)
(* further from a threshold than f32 rounding can move them                *)
RttGt(st, k) == st.rtt_ms[1] > k * st.rtt_ms[2]

RttLt(st, k) == st.rtt_ms[1] < k * st.rtt_ms[2]

(* loss_rate > p / q *)
LossGt(st, p, q) == st.loss_rate[1] * q > p * st.loss_rate[2]

LossLt(st, p, q) == st.loss_rate[1] * q < p * st.loss_rate[2]

(* jitter_ms < k, i.e. variance < k^2 *)
JitterLt(st, k) == st.jitter_var[1] < k * k * st.jitter_var[2]

----------------------------------------------------------------------------
(* quality/adaptive_controller.rs : AdaptiveBitrateController *)

adjustment_interval == 500

AdaptiveBitrateController_new(initial_bitrate, t) ==
    [monitor |-> NetworkMonitor_new,
     current_settings |-> [bitrate |-> initial_bitrate, fps |-> 60, qp |-> 25,
                           resolution |-> <<1920, 1080>>, codec |-> "H264"],
     target_bitrate |-> initial_bitrate,
     encoder_callback |-> FALSE,
     delivered |-> <<>>,
     state |-> "Stable",
     last_adjustment |-> t,
     min_bitrate |-> 2000000,
     max_bitrate |-> 100000000,
     improvement_count |-> 0,
     degradation_count |-> 0]

(* the callback, when registered, receives a copy of the settings *)
apply_settings(c) ==
    IF c.encoder_callback THEN [c EXCEPT !.delivered = <<c.current_settings>>]
    ELSE c

reduce_quality(c) ==
    LET tb == Max(MulF(c.target_bitrate, F32_0_9), c.min_bitrate)
        c1 == [c EXCEPT !.target_bitrate = tb,
                        !.current_settings.bitrate = tb,
                        !.degradation_count = @ + 1]
        c2 == IF tb < 10000000
              THEN [c1 EXCEPT !.current_settings.resolution = <<1280, 720>>]
              ELSE c1
        c3 == [c2 EXCEPT !.current_settings.qp = Min(@ + 2, 45)]
    IN  apply_settings(c3)

(* mutation: the aggressive step scales by 0.9 like the gentle one *)
reduce_quality_aggressive_gentle(c) ==
    LET tb == Max(MulF(c.target_bitrate, F32_0_9), c.min_bitrate)
        c1 == [c EXCEPT !.target_bitrate = tb,
                        !.current_settings.bitrate = tb,
                        !.current_settings.fps = 30,
                        !.current_settings.qp = 35,
                        !.degradation_count = @ + 1]
        c2 == IF tb < 5000000
              THEN [c1 EXCEPT !.current_settings.resolution = <<854, 480>>]
              ELSE c1
    IN  apply_settings(c2)

(* mutation: the aggressive step leaves the frame rate alone *)
reduce_quality_aggressive_keepfps(c) ==
    LET tb == Max(MulF(c.target_bitrate, F32_0_7), c.min_bitrate)
        c1 == [c EXCEPT !.target_bitrate = tb,
                        !.current_settings.bitrate = tb,
                        !.current_settings.qp = 35,
                        !.degradation_count = @ + 1]
        c2 == IF tb < 5000000
              THEN [c1 EXCEPT !.current_settings.resolution = <<854, 480>>]
              ELSE c1
    IN  apply_settings(c2)

(* mutation: the aggressive step never leaves 1080p *)
reduce_quality_aggressive_hd(c) ==
    LET tb == Max(MulF(c.target_bitrate, F32_0_7), c.min_bitrate)
    IN  apply_settings([c EXCEPT !.target_bitrate = tb,
                                 !.current_settings.bitrate = tb,
                                 !.current_settings.fps = 30,
                                 !.current_settings.qp = 35,
                                 !.degradation_count = @ + 1])

reduce_quality_aggressive(c) ==
    LET tb == Max(MulF(c.target_bitrate, F32_0_7), c.min_bitrate)
        c1 == [c EXCEPT !.target_bitrate = tb,
                        !.current_settings.bitrate = tb,
                        !.current_settings.fps = 30,
                        !.current_settings.qp = 35,
                        !.degradation_count = @ + 1]
        c2 == IF tb < 5000000
              THEN [c1 EXCEPT !.current_settings.resolution = <<854, 480>>]
              ELSE c1
    IN  apply_settings(c2)

increase_quality(c) ==
    LET raised(tb) ==
            LET c1 == [c EXCEPT !.target_bitrate = tb,
                                !.current_settings.bitrate = tb,
                                !.improvement_count = @ + 1]
                c2 == IF tb > 15000000 /\ c1.current_settings.resolution[1] < 1920
                      THEN [c1 EXCEPT !.current_settings.resolution = <<1920, 1080>>]
                      ELSE c1
                c3 == IF c2.improvement_count > 2
                      THEN [c2 EXCEPT !.current_settings.qp =
                                          Max(IF @ >= 1 THEN @ - 1 ELSE 0, 20),
                                      !.improvement_count = 0]
                      ELSE c2
            IN  apply_settings(c3)
    IN  raised(Min(MulF(c.target_bitrate, F32_1_05), F32OfU32(c.max_bitrate)))

(* mutation: the interval is halved *)
RateLimited_short(c, t) == t - c.last_adjustment < 250

(* the rate limiter of evaluate_network *)
RateLimited(c, t) == t - c.last_adjustment < adjustment_interval

(* the arms of the match on the state, for an evaluation that passed the  *)
(* rate limiter                                                            *)
(* mutation: Stable degrades only above 150 ms *)
evaluate_stable_late(c, st) ==
    IF RttGt(st, 150) \/ LossGt(st, 2, 100)
    THEN reduce_quality([c EXCEPT !.state = "Degrading"])
    ELSE IF RttLt(st, 20) /\ LossLt(st, 1, 1000)
    THEN increase_quality([c EXCEPT !.state = "Probing"])
    ELSE c

evaluate_stable(c, st) ==
    IF RttGt(st, 100) \/ LossGt(st, 2, 100)
    THEN reduce_quality([c EXCEPT !.state = "Degrading"])
    ELSE IF RttLt(st, 20) /\ LossLt(st, 1, 1000)
    THEN increase_quality([c EXCEPT !.state = "Probing"])
    ELSE c

(* mutation: Degrading recovers only below 50 ms, the bound of Recovering *)
evaluate_degrading_late(c, st) ==
    IF RttGt(st, 150) \/ LossGt(st, 5, 100)
    THEN reduce_quality_aggressive(c)
    ELSE IF RttLt(st, 50) /\ LossLt(st, 1, 100)
    THEN [c EXCEPT !.state = "Stable"]
    ELSE c

evaluate_degrading(c, st) ==
    IF RttGt(st, 150) \/ LossGt(st, 5, 100)
    THEN reduce_quality_aggressive(c)
    ELSE IF RttLt(st, 80) /\ LossLt(st, 1, 100)
    THEN [c EXCEPT !.state = "Stable"]
    ELSE c

(* mutation: Probing goes on only below 5 ms *)
evaluate_probing_strict(c, st) ==
    IF RttLt(st, 5) /\ JitterLt(st, 5)
    THEN increase_quality(c)
    ELSE [c EXCEPT !.state = "Stable"]

evaluate_probing(c, st) ==
    IF RttLt(st, 30) /\ JitterLt(st, 5)
    THEN increase_quality(c)
    ELSE [c EXCEPT !.state = "Stable"]

evaluate_recovering(c, st) ==
    IF RttLt(st, 50) /\ LossLt(st, 1, 100)
    THEN [increase_quality(c) EXCEPT !.state = "Stable"]
    ELSE IF RttGt(st, 100)
    THEN [c EXCEPT !.state = "Degrading"]
    ELSE c

evaluate_state(c, st) ==
    CASE c.state = "Stable" -> evaluate_stable(c, st)
      [] c.state = "Degrading" -> evaluate_degrading(c, st)
      [] c.state = "Probing" -> evaluate_probing(c, st)
      [] c.state = "Recovering" -> evaluate_recovering(c, st)

evaluate_network(c, t) ==
    IF RateLimited(c, t) THEN c
    ELSE [evaluate_state(c, get_stats(c.monitor)) EXCEPT !.last_adjustment = t]

(* number of record_loss calls update_stats makes: (loss_rate * 100.0) as  *)
(* u32, for a loss rate given in 1/10000                                   *)
loss_packets(loss) == loss \div 100

(* the monitor part of update_stats *)
update_monitor(c, stats) ==
    LET m1 == record_rtt(c.monitor, stats.rtt_ms)
        m2 == record_bandwidth_sample(m1, stats.bandwidth)
        m3 == IF stats.loss_rate > 0
              THEN record_losses(m2, loss_packets(stats.loss_rate))
              ELSE m2
    IN  [c EXCEPT !.monitor = m3]

update_stats(c, stats, t) == evaluate_network(update_monitor(c, stats), t)

controller_reset(c, t) ==
    [c EXCEPT !.monitor = monitor_reset(@),
              !.state = "Stable",
              !.target_bitrate = 20000000,
              !.current_settings = QualitySettings_default,
              !.improvement_count = 0,
              !.degradation_count = 0,
              !.last_adjustment = t]

(* u32::clamp panics when min > max *)
set_bitrate_panics(c) == c.min_bitrate > c.max_bitrate

set_bitrate(c, bitrate) ==
    LET tb == Clamp(bitrate, c.min_bitrate, c.max_bitrate)
    IN  apply_settings([c EXCEPT !.target_bitrate = tb,
                                 !.current_settings.bitrate = tb])

set_fps(c, fps) == [c EXCEPT !.current_settings.fps = Clamp(fps, 15, 144)]

set_qp(c, qp) == [c EXCEPT !.current_settings.qp = Clamp(qp, 10, 51)]

set_min_bitrate(c, bitrate) == [c EXCEPT !.min_bitrate = bitrate]

set_max_bitrate(c, bitrate) == [c EXCEPT !.max_bitrate = bitrate]

register_encoder_callback(c) == [c EXCEPT !.encoder_callback = TRUE]

----------------------------------------------------------------------------
(* Inputs *)

StatsExcellent == [rtt_ms |-> 5, jitter_ms |-> 1, loss_rate |-> 0, bandwidth |-> 1000000]

StatsSlow == [rtt_ms |-> 150, jitter_ms |-> 10, loss_rate |-> 0, bandwidth |-> 5000]

StatsCongested == [rtt_ms |-> 200, jitter_ms |-> 50, loss_rate |-> 1000, bandwidth |-> 5000]

StatsInputs == {StatsExcellent, StatsSlow, StatsCongested}

InitialBitrates == {2500000, 20000000}

BitrateInputs == {100000, 30000000}

MinBitrateInputs == {15000000}

MaxBitrateInputs == {10000000}

FpsInputs == {10, 200}

QpInputs == {5, 60}

RttInputs == {300}

BandwidthInputs == {4000000}

TimeSteps == {250}

(* the stats task sleeps 500 ms between two ticks *)
TickSteps == {500, 600, 750, 1000}

----------------------------------------------------------------------------
(* State *)

VARIABLES
    controller,       \* the AdaptiveBitrateController
    now,              \* Instant::now(), ms since construction
    panicked,         \* an operation of the controller panicked
    n_updates,        \* update_stats calls so far
    n_manual,         \* other controller calls so far
    last,             \* history: the most recent controller call, last loss
    last_decision,    \* history: time of the most recent adjustment, -1 if none
    decision_gap,     \* history: time between the two most recent adjustments
    run,              \* history: consecutive congested evaluations from Stable
    pre_increase      \* history: settings and target before the latest increase

qvars == <<controller, now, panicked, n_updates, n_manual,
           last, last_decision, decision_gap, run, pre_increase>>

VARIABLES
    quic,           \* the QuicTransport
    tasks,          \* the running tasks spawned by start_receive_tasks
    control_wire,   \* per generation: control packets on their way to the client
    server,         \* per generation: what the server has seen and done
    control_chan,   \* per generation: the buffer of the control mpsc channel
    shutdown_sent,  \* generations whose shutdown broadcast has been sent
    t_hist          \* history: connect calls and the ConnectResponses read

tvars == <<quic, tasks, control_wire, server, control_chan, shutdown_sent, t_hist>>

VARIABLES
    proc,           \* per caller: the method it is in and its position there
    call,           \* history, per caller: the most recent call that returned
    sent,           \* what the transport has handed to the network
    net,            \* the NetworkStats behind the stats RwLock
    locks,          \* holder of the input stream mutex and of the stats write lock
    s_hist,         \* history: calls begun, packets built, snapshot published
    connecting,     \* a connect call waiting for the handshake
    codec           \* a VideoPacket on its way through encode and decode

pvars == <<proc, call, sent, net, locks, s_hist>>

VARIABLES
    enc,            \* a video encoder: backend, configuration, frame counter
    e_hist,         \* history: the most recent encoder call and the frames out
    cap,            \* a screen capturer, the FrameRefs alive, the open fds
    c_hist          \* history: the most recent capturer call and the fds closed

VARIABLES
    manager,        \* a TransportManager: its transports and primary_index
    m_hist,         \* history: the manager calls made, the most recent one
    tcp             \* a TCP tunnel transport: stream lock, receive task, sender

xvars == <<manager, m_hist, tcp>>

mvars == <<enc, e_hist, cap, c_hist, xvars>>

svars == <<pvars, connecting, codec, mvars>>

vars == <<qvars, tvars, svars>>

NoRun == [n |-> 0, base |-> 0]

NoStats == [rtt_ms |-> 0, jitter_ms |-> 0, loss_rate |-> 0, bandwidth |-> 0]

Snapshot(c) == [settings |-> c.current_settings, target |-> c.target_bitrate]

HistInit ==
    /\ n_updates = 0
    /\ n_manual = 0
    /\ last = [op |-> "new", passed |-> FALSE, since |-> -1, pre |-> controller,
               stats |-> NoStats, loss_at |-> -1]
    /\ last_decision = -1
    /\ decision_gap = -1
    /\ run = NoRun
    /\ pre_increase = Snapshot(controller)

QInit ==
    /\ now = 0
    /\ \E b \in InitialBitrates : controller = AdaptiveBitrateController_new(b, 0)
    /\ panicked = FALSE
    /\ HistInit

(* an evaluation made an adjustment: it changed the state or ran a         *)
(* reduce/increase step (each of which changes one of the two counters)    *)
Adjusted(c0, c1) ==
    \/ c1.state # c0.state
    \/ c1.degradation_count # c0.degradation_count
    \/ c1.improvement_count # c0.improvement_count

(* the evaluated statistics show RTT > 150 ms and loss > 5% *)
Congested(st) == RttGt(st, 150) /\ LossGt(st, 5, 100)

(* time passes; the clock is only followed until the rate limiter has     *)
(* expired, a longer wait changes nothing the controller can observe       *)
Advance(d) ==
    /\ now - controller.last_adjustment < adjustment_interval
    /\ now' = now + d
    /\ UNCHANGED <<controller, panicked, n_updates, n_manual,
                   last, last_decision, decision_gap, run, pre_increase>>
    /\ UNCHANGED <<tvars, svars>>

(* update_stats at time t: the monitor is updated, get_stats sums the      *)
(* bandwidth samples, then the evaluation.  When the u32 sum overflows the *)
(* call panics in a build with overflow checks and goes on with a wrapped  *)
(* estimate, which the evaluation does not read, in a build without        *)
UpdateStatsAt(stats, t) ==
    /\ ~panicked
    /\ n_updates' = n_updates + 1
    /\ now' = t
    /\ \E c0 \in {update_monitor(controller, stats)} :
       \E c1 \in {evaluate_network(c0, t)} :
       LET passed  == ~RateLimited(c0, t)
           decided == passed /\ Adjusted(c0, c1)
           since   == IF last_decision = -1 THEN -1 ELSE t - last_decision
           lost    == IF loss_packets(stats.loss_rate) > 0 THEN t
                      ELSE last.loss_at
       IN  \/ /\ estimate_bandwidth_overflows(c0.monitor)
              /\ panicked' = TRUE
              /\ controller' = c0
              /\ last' = [op |-> "update_stats", passed |-> FALSE,
                          since |-> since, pre |-> c0, stats |-> stats,
                          loss_at |-> lost]
              /\ run' = NoRun
              /\ UNCHANGED <<last_decision, decision_gap, pre_increase>>
           \/ /\ panicked' = FALSE
              /\ controller' = c1
              /\ last' = [op |-> "update_stats", passed |-> passed,
                          since |-> since, pre |-> c0, stats |-> stats,
                          loss_at |-> lost]
              /\ pre_increase' = IF c1.improvement_count # c0.improvement_count
                                 THEN Snapshot(c0) ELSE pre_increase
              /\ last_decision' = IF decided THEN t ELSE last_decision
              /\ decision_gap' = IF decided /\ last_decision # -1
                                 THEN t - last_decision ELSE decision_gap
              /\ run' = IF ~passed THEN run
                        ELSE IF ~Congested(get_stats(c0.monitor)) THEN NoRun
                        ELSE IF run.n > 0 THEN [run EXCEPT !.n = @ + 1]
                        ELSE IF c0.state = "Stable"
                        THEN [n |-> 1, base |-> c0.target_bitrate]
                        ELSE NoRun
    /\ UNCHANGED <<n_manual, tvars, svars>>

UpdateStats(stats) ==
    /\ n_updates < MaxUpdates
    /\ UpdateStatsAt(stats, now)

(* one tick of the stats task: d ms after the previous call, update_stats  *)
Tick(d, stats) ==
    /\ n_updates < MaxTicks
    /\ UpdateStatsAt(stats, now + d)

(* every other call: c1 is the controller it leaves; at most budget of    *)
(* them are followed                                                       *)
ManualCall(op, c1, budget) ==
    /\ ~panicked
    /\ n_manual < budget
    /\ n_manual' = n_manual + 1
    /\ controller' = c1
    /\ last' = [op |-> op, passed |-> FALSE, since |-> -1, pre |-> controller,
                stats |-> NoStats,
                loss_at |-> IF op = "record_loss" THEN now ELSE last.loss_at]
    /\ run' = NoRun
    /\ UNCHANGED <<now, panicked, n_updates, last_decision, decision_gap,
                   pre_increase, tvars, svars>>

Manual(op, c1) == ManualCall(op, c1, MaxManual)

(* set_bitrate: u32::clamp panics when min_bitrate > max_bitrate *)
SetBitrateCall(b, budget) ==
    IF set_bitrate_panics(controller)
    THEN /\ ~panicked
         /\ n_manual < budget
         /\ n_manual' = n_manual + 1
         /\ panicked' = TRUE
         /\ last' = [op |-> "set_bitrate", passed |-> FALSE, since |-> -1,
                     pre |-> controller, stats |-> NoStats,
                     loss_at |-> last.loss_at]
         /\ run' = NoRun
         /\ UNCHANGED <<controller, now, n_updates, last_decision,
                        decision_gap, pre_increase, tvars, svars>>
    ELSE ManualCall("set_bitrate", set_bitrate(controller, b), budget)

SetBitrate(b) == SetBitrateCall(b, MaxManual)

SetFps(f) == Manual("set_fps", set_fps(controller, f))

SetQp(q) == Manual("set_qp", set_qp(controller, q))

SetMinBitrate(b) == Manual("set_min_bitrate", set_min_bitrate(controller, b))

SetMaxBitrate(b) == Manual("set_max_bitrate", set_max_bitrate(controller, b))

Reset == Manual("reset", controller_reset(controller, now))

RegisterEncoderCallback ==
    Manual("register_encoder_callback", register_encoder_callback(controller))

RecordRtt(r) ==
    Manual("record_rtt", [controller EXCEPT !.monitor = record_rtt(@, r)])

RecordLoss ==
    Manual("record_loss", [controller EXCEPT !.monitor = record_loss(@)])

RecordBandwidth(bw) ==
    Manual("record_bandwidth",
           [controller EXCEPT !.monitor = record_bandwidth_sample(@, bw)])

(* through monitor_mut() *)
RecordSuccess ==
    Manual("record_success", [controller EXCEPT !.monitor = record_success(@)])

(* the bitrate limits set at run time, to values on either side of the    *)
(* defaults (2 Mbps and 100 Mbps), and a set_bitrate after them            *)
MaxLimitCalls == 2

LimitInputs == {1000000, 150000000}

LimitSetMin(b) ==
    ManualCall("set_min_bitrate", set_min_bitrate(controller, b), MaxLimitCalls)

LimitSetMax(b) ==
    ManualCall("set_max_bitrate", set_max_bitrate(controller, b), MaxLimitCalls)

LimitSetBitrate(b) == SetBitrateCall(b, MaxLimitCalls)

(* the stats task after a period of loss: a tick every TickPeriod ms with  *)
(* healthy statistics, for ever.  Instant has no origin and the controller *)
(* reads only the time since last_adjustment, so the clock and             *)
(* last_adjustment are both moved back by two periods whenever the clock   *)
(* has passed two periods; degradation_count, which is written and never   *)
(* read, is followed up to MaxDegradations.  The history variables are not *)
(* followed.                                                               *)
TickPeriod == 500

MaxLossyTicks == 1

MaxDegradations == 4

StatsHealthy == [rtt_ms |-> 20, jitter_ms |-> 1, loss_rate |-> 0, bandwidth |-> 5000]

Rebase(c, d) ==
    [c EXCEPT !.last_adjustment = @ - d,
              !.degradation_count = Min(@, MaxDegradations)]

LossyTick ==
    /\ n_updates < MaxLossyTicks
    /\ Tick(TickPeriod, StatsCongested)

HealthyTick ==
    /\ ~panicked
    /\ controller.monitor.loss_count > 0
    /\ \E c0 \in {update_monitor(controller, StatsHealthy)} :
       \E c1 \in {evaluate_network(c0, now + TickPeriod)} :
       \E back \in {IF now + TickPeriod > 2 * TickPeriod
                     THEN 2 * TickPeriod ELSE 0} :
           /\ ~estimate_bandwidth_overflows(c0.monitor)
           /\ now' = now + TickPeriod - back
           /\ controller' = Rebase(c1, back)
    /\ UNCHANGED <<panicked, n_updates, n_manual, last, last_decision,
                   decision_gap, run, pre_increase, tvars, svars>>

(* a callback registered, and the calls that change the settings after it *)
CallbackRegister ==
    ManualCall("register_encoder_callback",
               register_encoder_callback(controller), MaxLimitCalls)

CallbackSetBitrate(b) == SetBitrateCall(b, MaxLimitCalls)

CallbackSetFps(f) == ManualCall("set_fps", set_fps(controller, f), MaxLimitCalls)

CallbackSetQp(q) == ManualCall("set_qp", set_qp(controller, q), MaxLimitCalls)

CallbackReset ==
    ManualCall("reset", controller_reset(controller, now), MaxLimitCalls)

QNext ==
    \/ \E d \in TimeSteps : Advance(d)
    \/ \E s \in StatsInputs : UpdateStats(s)
    \/ \E b \in BitrateInputs : SetBitrate(b)
    \/ \E f \in FpsInputs : SetFps(f)
    \/ \E q \in QpInputs : SetQp(q)
    \/ \E b \in MinBitrateInputs : SetMinBitrate(b)
    \/ \E b \in MaxBitrateInputs : SetMaxBitrate(b)
    \/ Reset
    \/ RegisterEncoderCallback
    \/ \E r \in RttInputs : RecordRtt(r)
    \/ \E bw \in BandwidthInputs : RecordBandwidth(bw)
    \/ RecordLoss
    \/ RecordSuccess

----------------------------------------------------------------------------
(* transport/quic.rs : QuicTransport.  A connection made by the k-th       *)
(* successful connect is called generation k; 0 stands for None.           *)

Gens == 1..MaxConnects

(* QuicTransport::new.  The struct literal names client_config twice,      *)
(* first Some(client_config) and last None; either may be the value        *)
QuicTransport_new(cc) ==
    [endpoint |-> TRUE, client_config |-> cc, connection |-> 0,
     video_stream |-> FALSE, input_stream |-> FALSE, control_stream |-> FALSE,
     connected |-> FALSE, video_seq |-> 0, input_seq |-> 0,
     stats_task |-> 0, rx |-> 0, shutdown_tx |-> 0]

TaskKinds == {"video", "input_ack", "control", "stats"}

TInit ==
    /\ \E cc \in BOOLEAN : quic = QuicTransport_new(cc)
    /\ tasks = {}
    /\ control_wire = [g \in Gens |-> <<>>]
    /\ server = [g \in Gens |-> [got_connect |-> FALSE, replied |-> FALSE,
                                 pings |-> 0, closed |-> FALSE]]
    /\ control_chan = [g \in Gens |-> <<>>]
    /\ shutdown_sent = {}
    /\ t_hist = [n_connects |-> 0, result |-> "none", n_pings |-> 0, pong_rtt |-> 0,
                 response |-> [g \in Gens |-> "none"]]

(* start_receive_tasks: new channels, a new shutdown sender, four tasks *)
start_receive_tasks(q, g) ==
    [q EXCEPT !.rx = g, !.shutdown_tx = g, !.stats_task = g]

(* connect; outcome is what the network does: the QUIC handshake fails,    *)
(* opening a stream fails, writing the Connect packet fails, or all of     *)
(* them succeed.  connect returns as soon as the Connect packet is written *)
ConnectOutcomes == {"handshake_failed", "open_bi_failed", "write_failed", "ok"}

ConnectReturn(outcome) ==
    /\ t_hist.n_connects < MaxConnects
    /\ IF ~quic.endpoint \/ ~quic.client_config
       THEN /\ t_hist' = [t_hist EXCEPT !.result = "NotConnected"]
            /\ UNCHANGED <<quic, tasks, control_wire, server, control_chan,
                           shutdown_sent>>
       ELSE IF outcome = "handshake_failed" \/ outcome = "open_bi_failed"
       THEN /\ t_hist' = [t_hist EXCEPT !.result = "Connection"]
            /\ UNCHANGED <<quic, tasks, control_wire, server, control_chan,
                           shutdown_sent>>
       ELSE IF outcome = "write_failed"
       THEN /\ t_hist' = [t_hist EXCEPT !.result = "Io"]
            /\ UNCHANGED <<quic, tasks, control_wire, server, control_chan,
                           shutdown_sent>>
       ELSE LET g == t_hist.n_connects + 1
            IN  /\ quic' = start_receive_tasks(
                               [quic EXCEPT !.video_stream = TRUE,
                                            !.input_stream = TRUE,
                                            !.control_stream = TRUE,
                                            !.connected = TRUE,
                                            !.connection = g], g)
                /\ tasks' = tasks \cup {[gen |-> g, kind |-> k] : k \in TaskKinds}
                /\ server' = [server EXCEPT ![g].got_connect = TRUE]
                /\ t_hist' = [t_hist EXCEPT !.n_connects = g, !.result = "Ok"]
                /\ UNCHANGED <<control_wire, control_chan, shutdown_sent>>
    /\ UNCHANGED <<qvars, pvars, codec, mvars>>

(* a connect call whose handshake is answered at once *)
Connect(outcome) ==
    /\ ~connecting.active
    /\ ConnectReturn(outcome)
    /\ UNCHANGED connecting

(* the server answers the Connect request *)
ServerRespond(g, success) ==
    /\ server[g].got_connect
    /\ ~server[g].replied
    /\ ~server[g].closed
    /\ server' = [server EXCEPT ![g].replied = TRUE]
    /\ control_wire' = [control_wire EXCEPT ![g] =
                           Append(@, [type |-> "ConnectResponse", success |-> success])]
    /\ UNCHANGED <<quic, tasks, control_chan, shutdown_sent, t_hist, qvars, svars>>

(* the server echoes a Ping *)
ServerPong(g) ==
    /\ server[g].pings > 0
    /\ ~server[g].closed
    /\ server' = [server EXCEPT ![g].pings = @ - 1]
    /\ control_wire' = [control_wire EXCEPT ![g] =
                           Append(@, [type |-> "Pong", success |-> FALSE])]
    /\ UNCHANGED <<quic, tasks, control_chan, shutdown_sent, t_hist, qvars, svars>>

(* the peer resets the connection *)
PeerClose(g) ==
    /\ server[g].got_connect
    /\ ~server[g].closed
    /\ server' = [server EXCEPT ![g].closed = TRUE]
    /\ UNCHANGED <<quic, tasks, control_wire, control_chan, shutdown_sent,
                   t_hist, qvars, svars>>

(* the shutdown receiver of generation g resolves: a signal was sent, or   *)
(* the sender was replaced by a later start_receive_tasks and dropped      *)
ShutdownReady(g) == g \in shutdown_sent \/ quic.shutdown_tx # g

(* control receive task: one packet read from the stream, decoded, the Pong *)
(* RTT computed and dropped, the packet forwarded to control_rx            *)
(* the round trip times, in ms, a Pong may show *)
PongRttInputs == {20}

(* the control task reads a packet.  For a Pong it computes now - timestamp *)
(* into a local that nothing reads; the history keeps the value            *)
ControlTaskRead(g) ==
    /\ [gen |-> g, kind |-> "control"] \in tasks
    /\ control_wire[g] # <<>>
    /\ control_wire' = [control_wire EXCEPT ![g] = Tail(@)]
    /\ control_chan' = IF quic.rx = g
                       THEN [control_chan EXCEPT ![g] = Append(@, Head(control_wire[g]))]
                       ELSE control_chan
    /\ \E rtt_ms \in PongRttInputs :
         t_hist' = CASE Head(control_wire[g]).type = "ConnectResponse" ->
                          [t_hist EXCEPT !.response[g] =
                              IF Head(control_wire[g]).success THEN "success"
                              ELSE "failure"]
                     [] Head(control_wire[g]).type = "Pong" ->
                          [t_hist EXCEPT !.pong_rtt = rtt_ms]
                     [] OTHER -> t_hist
    /\ UNCHANGED <<quic, tasks, server, shutdown_sent, qvars, svars>>

(* a receive task leaves its loop: shutdown observed, or the read failed   *)
ReceiveTaskExit(g, k) ==
    /\ k \in {"video", "input_ack", "control"}
    /\ [gen |-> g, kind |-> k] \in tasks
    /\ \/ ShutdownReady(g)
       \/ server[g].closed /\ (k = "control" => control_wire[g] = <<>>)
    /\ tasks' = tasks \ {[gen |-> g, kind |-> k]}
    /\ UNCHANGED <<quic, control_wire, server, control_chan, shutdown_sent,
                   t_hist, qvars, svars>>

(* statistics task, one interval tick: leave when the connected flag is    *)
(* down, else send a Ping datagram                                         *)
StatsTaskTick(g) ==
    /\ [gen |-> g, kind |-> "stats"] \in tasks
    /\ IF ~quic.connected
       THEN /\ tasks' = tasks \ {[gen |-> g, kind |-> "stats"]}
            /\ UNCHANGED <<server, t_hist>>
       ELSE /\ t_hist.n_pings < MaxPings
            /\ t_hist' = [t_hist EXCEPT !.n_pings = @ + 1]
            /\ server' = IF server[g].closed THEN server
                         ELSE [server EXCEPT ![g].pings = @ + 1]
            /\ UNCHANGED tasks
    /\ UNCHANGED <<quic, control_wire, control_chan, shutdown_sent, qvars, svars>>

(* recv_control, when it returns: a queued packet, or an error *)
RecvControl ==
    /\ quic.rx # 0
    /\ control_chan[quic.rx] # <<>>
    /\ control_chan' = [control_chan EXCEPT ![quic.rx] = Tail(@)]
    /\ UNCHANGED <<quic, tasks, control_wire, server, shutdown_sent, t_hist, qvars, svars>>

Disconnect_keepflag ==
    /\ quic.endpoint
    /\ shutdown_sent' = IF quic.shutdown_tx # 0
                        THEN shutdown_sent \cup {quic.shutdown_tx}
                        ELSE shutdown_sent
    /\ quic' = [quic EXCEPT !.video_stream = FALSE,
                            !.input_stream = FALSE,
                            !.control_stream = FALSE,
                            !.connection = 0,
                            !.endpoint = FALSE]
    /\ server' = IF quic.connection # 0
                 THEN [server EXCEPT ![quic.connection].closed = TRUE]
                 ELSE server
    /\ UNCHANGED <<tasks, control_wire, control_chan, t_hist, qvars, svars>>

(* disconnect: the stats task is aborted through its handle *)
Disconnect ==
    /\ quic.endpoint
    /\ shutdown_sent' = IF quic.shutdown_tx # 0
                        THEN shutdown_sent \cup {quic.shutdown_tx}
                        ELSE shutdown_sent
    /\ tasks' = tasks \ {[gen |-> quic.stats_task, kind |-> "stats"]}
    /\ quic' = [quic EXCEPT !.stats_task = 0,
                            !.video_stream = FALSE,
                            !.input_stream = FALSE,
                            !.control_stream = FALSE,
                            !.connection = 0,
                            !.endpoint = FALSE,
                            !.connected = FALSE]
    /\ server' = IF quic.connection # 0
                 THEN [server EXCEPT ![quic.connection].closed = TRUE]
                 ELSE server
    /\ UNCHANGED <<control_wire, control_chan, t_hist, qvars, svars>>

TNext ==
    \/ \E o \in ConnectOutcomes : Connect(o)
    \/ \E g \in Gens, ok \in BOOLEAN : ServerRespond(g, ok)
    \/ \E g \in Gens : ServerPong(g)
    \/ \E g \in Gens : PeerClose(g)
    \/ \E g \in Gens : ControlTaskRead(g)
    \/ \E g \in Gens, k \in TaskKinds : ReceiveTaskExit(g, k)
    \/ \E g \in Gens : StatsTaskTick(g)
    \/ RecvControl
    \/ Disconnect

----------------------------------------------------------------------------
(* transport/protocol.rs : VideoPacket on the wire.  Bytes are 0..255, a   *)
(* buffer is a sequence of bytes, a u64 is the pair <<high, low>> of its   *)
(* 32 bit halves.                                                          *)

RECURSIVE BE(_, _)
BE(n, k) == IF k = 0 THEN <<>> ELSE Append(BE(n \div 256, k - 1), n % 256)

put_u32(buf, n) == buf \o BE(n, 4)

put_u64(buf, n) == buf \o BE(n[1], 4) \o BE(n[2], 4)

put_u8(buf, b) == Append(buf, b)

get_u32(buf, at) ==
    ((buf[at] * 256 + buf[at + 1]) * 256 + buf[at + 2]) * 256 + buf[at + 3]

get_u64(buf, at) == <<get_u32(buf, at), get_u32(buf, at + 4)>>

VideoCodec == <<"H264", "H265", "VP9", "AV1">>

codec_as_u8(c) == CHOOSE i \in 0..3 : VideoCodec[i + 1] = c

codec_from_u8_h264(b) == "H264"

codec_from_u8(b) == IF b \in 0..3 THEN VideoCodec[b + 1] ELSE "H264"

VideoPacket_encode(p) ==
    put_u8(put_u32(put_u32(put_u8(put_u32(put_u64(put_u32(<<>>,
        p.seq), p.timestamp), Len(p.data)), IF p.key_frame THEN 1 ELSE 0),
        p.width), p.height), codec_as_u8(p.codec)) \o p.data

HEADER_SIZE == 4 + 8 + 4 + 1 + 4 + 4 + 1

NoPacket ==
    [seq |-> 0, timestamp |-> <<0, 0>>, data |-> <<>>, key_frame |-> FALSE,
     width |-> 0, height |-> 0, codec |-> "H264"]

(* the length test lets a buffer of HEADER_SIZE - 1 bytes through, and the  *)
(* read of the codec byte then panics                                      *)
VideoPacket_decode(buf) ==
    IF Len(buf) < HEADER_SIZE - 1
    THEN [ok |-> FALSE, err |-> "InvalidPacket", packet |-> NoPacket]
    ELSE IF Len(buf) < HEADER_SIZE
    THEN [ok |-> FALSE, err |-> "panic", packet |-> NoPacket]
    ELSE IF Len(buf) - HEADER_SIZE < get_u32(buf, 13)
    THEN [ok |-> FALSE, err |-> "InvalidPacket", packet |-> NoPacket]
    ELSE [ok |-> TRUE, err |-> "none",
          packet |-> [seq |-> get_u32(buf, 1),
                      timestamp |-> get_u64(buf, 5),
                      data |-> SubSeq(buf, HEADER_SIZE + 1,
                                      HEADER_SIZE + get_u32(buf, 13)),
                      key_frame |-> buf[17] # 0,
                      width |-> get_u32(buf, 18),
                      height |-> get_u32(buf, 22),
                      codec |-> codec_from_u8(buf[26])]]

(* the frame of the protocol test, as an EncodedFrame *)
TestFrame ==
    [pts |-> <<0, 12345678>>, data |-> <<1, 2, 3, 4, 5>>, key_frame |-> TRUE,
     width |-> 1920, height |-> 1080, codec |-> "H264"]

----------------------------------------------------------------------------
(* transport/quic.rs : the send side.  The methods take &self, so several  *)
(* callers may be inside them at once; connect and disconnect take         *)
(* &mut self and run only while no caller is inside a method.              *)

Callers == {1, 2}

IdleProc == [pc |-> "idle", seq |-> 0, len |-> 0, connected |-> FALSE,
             wrote |-> 0]

NetworkStats_default ==
    [bytes_sent |-> 0, packets_sent |-> 0, packets_lost |-> 0, rtt_ms |-> 0]

NoCall == [op |-> "none", result |-> "none", connected |-> FALSE, wrote |-> 0,
           failed |-> FALSE, reliable |-> FALSE,
           snapshot |-> NetworkStats_default, published |-> NetworkStats_default]

AllIdle == \A p \in Callers : proc[p].pc = "idle"

fetch_add_stuck(v) == v

(* AtomicU32 / AtomicU64 fetch_add(1): the value after the call *)
fetch_add(v) == v + 1

(* the call of caller p returns *)
Return(p, op, result, wrote, failed, reliable) ==
    /\ proc' = [proc EXCEPT ![p] = IdleProc]
    /\ call' = [call EXCEPT ![p] =
                   [NoCall EXCEPT !.op = op, !.result = result,
                                  !.connected = proc[p].connected,
                                  !.wrote = wrote, !.failed = failed,
                                  !.reliable = reliable]]

(* send_video up to the first await: the sequence number is taken, the     *)
(* packet built and encoded, and with a connection the datagram attempted; *)
(* dg is what send_datagram answers                                        *)
DatagramOutcomes == {"ok", "UnsupportedByPeer", "error"}

SendVideo(p, dg) ==
    /\ proc[p].pc = "idle"
    /\ s_hist.n_calls < MaxSends
    /\ quic.connection = 0 => dg = "ok"
    /\ quic' = [quic EXCEPT !.video_seq = fetch_add(@)]
    /\ s_hist' = [s_hist EXCEPT !.n_calls = @ + 1,
                                !.built = Append(@, quic.video_seq)]
    /\ LET me == [IdleProc EXCEPT
                     !.seq = quic.video_seq,
                     !.len = Len(VideoPacket_encode(
                                 [seq |-> quic.video_seq,
                                  timestamp |-> TestFrame.pts,
                                  data |-> TestFrame.data,
                                  key_frame |-> TestFrame.key_frame,
                                  width |-> TestFrame.width,
                                  height |-> TestFrame.height,
                                  codec |-> TestFrame.codec])),
                     !.connected = quic.connected]
       IN  IF quic.connection # 0 /\ dg = "ok"
           THEN /\ sent' = [sent EXCEPT !.video = Append(@, quic.video_seq)]
                /\ proc' = [proc EXCEPT ![p] = [me EXCEPT !.pc = "sv_bytes",
                                                          !.wrote = 1]]
                /\ UNCHANGED call
           ELSE IF quic.connection # 0 /\ dg = "error"
           THEN /\ proc' = [proc EXCEPT ![p] = IdleProc]
                /\ call' = [call EXCEPT ![p] =
                               [NoCall EXCEPT !.op = "send_video",
                                              !.result = "Connection",
                                              !.connected = quic.connected,
                                              !.failed = TRUE]]
                /\ UNCHANGED sent
           ELSE /\ proc' = [proc EXCEPT ![p] = [me EXCEPT !.pc = "sv_stream"]]
                /\ UNCHANGED <<call, sent>>
    /\ UNCHANGED <<tasks, control_wire, server, control_chan, shutdown_sent,
                   t_hist, net, locks, connecting, codec, mvars, qvars>>

(* send_video, the stream fallback; w is what write_all answers *)
WriteOutcomes == {"ok", "error"}

SendVideoStream(p, w) ==
    /\ proc[p].pc = "sv_stream"
    /\ ~quic.video_stream => w = "ok"
    /\ IF ~quic.video_stream
       THEN /\ Return(p, "send_video", "Ok", 0, FALSE, FALSE)
            /\ UNCHANGED sent
       ELSE IF w = "error"
       THEN /\ Return(p, "send_video", "Io", 0, TRUE, FALSE)
            /\ UNCHANGED sent
       ELSE /\ sent' = [sent EXCEPT !.video = Append(@, proc[p].seq)]
            /\ proc' = [proc EXCEPT ![p].pc = "sv_sbytes", ![p].wrote = 1]
            /\ UNCHANGED call
    /\ UNCHANGED <<tvars, net, locks, s_hist, connecting, codec, mvars, qvars>>

(* self.stats.write().await: the write lock is granted *)
StatsWriteLock(p) ==
    /\ proc[p].pc \in {"sv_bytes", "sv_packets", "sv_sbytes"}
    /\ locks.stats = 0
    /\ locks' = [locks EXCEPT !.stats = p]
    /\ UNCHANGED <<tvars, proc, call, sent, net, s_hist, connecting, codec, mvars, qvars>>

(* the counter is advanced under the write lock and the guard dropped;     *)
(* after the last one send_video returns Ok                                *)
StatsWrite(p) ==
    /\ proc[p].pc \in {"sv_bytes", "sv_packets", "sv_sbytes"}
    /\ locks.stats = p
    /\ locks' = [locks EXCEPT !.stats = 0]
    /\ net' = IF proc[p].pc = "sv_packets"
              THEN [net EXCEPT !.packets_sent = @ + 1]
              ELSE [net EXCEPT !.bytes_sent = @ + proc[p].len]
    /\ IF proc[p].pc = "sv_bytes"
       THEN /\ proc' = [proc EXCEPT ![p].pc = "sv_packets"]
            /\ UNCHANGED <<call, s_hist>>
       ELSE /\ Return(p, "send_video", "Ok", 1, FALSE, FALSE)
            /\ s_hist' = [s_hist EXCEPT !.published = net']
    /\ UNCHANGED <<tvars, sent, connecting, codec, mvars, qvars>>

(* stats(): try_read, and the default value when the lock is write-held *)
Stats(p) ==
    /\ proc[p].pc = "idle"
    /\ call' = [call EXCEPT ![p] =
                   [NoCall EXCEPT !.op = "stats",
                                  !.connected = quic.connected,
                                  !.snapshot = IF locks.stats # 0
                                               THEN NetworkStats_default
                                               ELSE net,
                                  !.published = s_hist.published]]
    /\ UNCHANGED <<tvars, proc, sent, net, locks, s_hist, connecting, codec, mvars, qvars>>

(* send_input up to the lock await: the sequence number is taken, then the *)
(* stream looked up                                                        *)
SendInput(p) ==
    /\ proc[p].pc = "idle"
    /\ s_hist.n_calls < MaxSends
    /\ quic' = [quic EXCEPT !.input_seq = fetch_add(@)]
    /\ s_hist' = [s_hist EXCEPT !.n_calls = @ + 1]
    /\ IF quic.input_stream
       THEN /\ proc' = [proc EXCEPT ![p] =
                           [IdleProc EXCEPT !.pc = "si_lock",
                                            !.seq = quic.input_seq,
                                            !.connected = quic.connected]]
            /\ UNCHANGED call
       ELSE /\ proc' = [proc EXCEPT ![p] = IdleProc]
            /\ call' = [call EXCEPT ![p] =
                           [NoCall EXCEPT !.op = "send_input",
                                          !.result = "NotConnected",
                                          !.connected = quic.connected]]
    /\ UNCHANGED <<tasks, control_wire, server, control_chan, shutdown_sent,
                   t_hist, sent, net, locks, connecting, codec, mvars, qvars>>

(* stream.lock().await: the input stream mutex is granted *)
SendInputLock(p) ==
    /\ proc[p].pc = "si_lock"
    /\ locks.input = 0
    /\ locks' = [locks EXCEPT !.input = p]
    /\ proc' = [proc EXCEPT ![p].pc = "si_seq"]
    /\ UNCHANGED <<tvars, call, sent, net, s_hist, connecting, codec, mvars, qvars>>

(* one of the three write_all calls made under the mutex: the sequence     *)
(* number, the length, the data; an error returns Io and drops the guard   *)
SendInputWrite(p, w) ==
    /\ proc[p].pc \in {"si_seq", "si_len", "si_data"}
    /\ locks.input = p
    /\ IF w = "error"
       THEN /\ Return(p, "send_input", "Io", proc[p].wrote, TRUE, FALSE)
            /\ locks' = [locks EXCEPT !.input = 0]
            /\ UNCHANGED sent
       ELSE /\ sent' = [sent EXCEPT !.input =
                           Append(@, [seq |-> proc[p].seq,
                                      part |-> proc[p].pc])]
            /\ IF proc[p].pc = "si_data"
               THEN /\ Return(p, "send_input", "Ok", 3, FALSE, TRUE)
                    /\ locks' = [locks EXCEPT !.input = 0]
               ELSE /\ proc' = [proc EXCEPT
                                   ![p].pc = IF proc[p].pc = "si_seq"
                                             THEN "si_len" ELSE "si_data",
                                   ![p].wrote = @ + 1]
                    /\ UNCHANGED <<call, locks>>
    /\ UNCHANGED <<tvars, net, s_hist, connecting, codec, mvars, qvars>>

(* send_control: the control stream when there is one, else a datagram     *)
(* whose result is dropped, else nothing; w is what the write answers      *)
SendControl(p, w) ==
    /\ proc[p].pc = "idle"
    /\ s_hist.n_calls < MaxSends
    /\ (~quic.control_stream /\ quic.connection = 0) => w = "ok"
    /\ s_hist' = [s_hist EXCEPT !.n_calls = @ + 1]
    /\ proc' = proc
    /\ IF quic.control_stream
       THEN IF w = "error"
            THEN /\ call' = [call EXCEPT ![p] =
                               [NoCall EXCEPT !.op = "send_control",
                                              !.result = "Io",
                                              !.connected = quic.connected,
                                              !.failed = TRUE]]
                 /\ UNCHANGED sent
            ELSE /\ call' = [call EXCEPT ![p] =
                               [NoCall EXCEPT !.op = "send_control",
                                              !.result = "Ok",
                                              !.connected = quic.connected,
                                              !.wrote = 1,
                                              !.reliable = TRUE]]
                 /\ sent' = [sent EXCEPT !.control = @ + 1]
       ELSE /\ call' = [call EXCEPT ![p] =
                           [NoCall EXCEPT !.op = "send_control",
                                          !.result = "Ok",
                                          !.connected = quic.connected,
                                          !.wrote = IF quic.connection # 0 /\ w = "ok"
                                                    THEN 1 ELSE 0,
                                          !.failed = quic.connection # 0 /\ w = "error"]]
            /\ UNCHANGED sent
    /\ UNCHANGED <<tvars, net, locks, connecting, codec, mvars, qvars>>

(* connect and disconnect, called while no caller is inside a method *)
CallerConnect(o) == AllIdle /\ Connect(o)

CallerDisconnect == AllIdle /\ Disconnect

SNext ==
    \/ \E o \in {"handshake_failed", "ok"} : CallerConnect(o)
    \/ CallerDisconnect
    \/ \E p \in Callers, dg \in DatagramOutcomes : SendVideo(p, dg)
    \/ \E p \in Callers, w \in WriteOutcomes : SendVideoStream(p, w)
    \/ \E p \in Callers : StatsWriteLock(p)
    \/ \E p \in Callers : StatsWrite(p)
    \/ \E p \in Callers : Stats(p)
    \/ \E p \in Callers : SendInput(p)
    \/ \E p \in Callers : SendInputLock(p)
    \/ \E p \in Callers, w \in WriteOutcomes : SendInputWrite(p, w)
    \/ \E p \in Callers, w \in WriteOutcomes : SendControl(p, w)

(* The video encoders.  enc is one encoder: SoftwareEncoder or             *)
(* LowLatencyNvenc (VAAPI and AMF have the shape of the latter).  A call   *)
(* is one action; e_hist records it.                                       *)

MaxEncoderCalls == 4

Backends == {"software", "nvenc"}

(* EncoderConfig::default(), reduced to the fields the encoders read: 1920 *)
(* x 1080 at 60 fps and 20 Mbps, an infinite GOP                           *)
EncoderConfig_default == [gop_length |-> 0, fps |-> 60, bitrate |-> 20000000]

(* SoftwareEncoder::new, LowLatencyNvenc::new *)
Encoder_new(backend) ==
    [backend |-> backend, config |-> EncoderConfig_default, frame_count |-> 0,
     initialized |-> FALSE, qp |-> 0, panicked |-> FALSE]

NoEncoderCall ==
    [op |-> "new", arg |-> 0, frame |-> "none", result |-> "none", key |-> FALSE,
     pre |-> Encoder_new("software"), n_calls |-> 0, frames_out |-> 0,
     first_key |-> "none", idr |-> FALSE, forced |-> FALSE, set_to |-> 0]

(* the configurations handed to init, and the bitrates to set_bitrate *)
ConfigInputs ==
    {[EncoderConfig_default EXCEPT !.gop_length = g] : g \in {0, 1, 5}}
        \cup {[EncoderConfig_default EXCEPT !.fps = 0]}

EncoderBitrateInputs == {2000000, 5000000}

(* the frames handed to encode: with CPU data of the configured size, with *)
(* no CPU data (a GPU pointer or a DMA-BUF only), with neither, and with   *)
(* CPU data of a smaller picture than the one configured                   *)
FrameInputs == {"data", "gpu", "empty", "short"}

(* the QP of create_software_context and set_bitrate at 1920 x 1080:       *)
(* (51.0 - bitrate / (w * h * fps) * 1000.0).clamp(18.0, 51.0) as u8, the  *)
(* cast truncating                                                         *)
software_qp(bitrate, fps) ==
    LET den == 20736 * fps
        x_up == (bitrate * 10 + den - 1) \div den
    IN  Max(51 - x_up, 18)

should_generate_keyframe(e) ==
    IF e.config.gop_length = 0
    THEN e.frame_count = 1
    ELSE e.frame_count % e.config.gop_length = 1

(* the encoder after init(config), and what the call returns *)
encoder_init(e, config) ==
    CASE e.backend = "software" /\ e.initialized ->
            [enc |-> e, result |-> "InvalidInputFormat"]
      [] e.backend = "software" /\ config.fps = 0 ->
            [enc |-> e, result |-> "InvalidInputFormat"]
      [] e.backend = "software" ->
            [enc |-> [e EXCEPT !.config = config, !.initialized = TRUE,
                               !.qp = software_qp(config.bitrate, config.fps)],
             result |-> "Ok"]
      [] e.backend = "nvenc" /\ e.initialized ->
            [enc |-> e, result |-> "InvalidConfig"]
      [] e.backend = "nvenc" /\ config.fps = 0 ->
            \* setup_low_latency_config divides the bitrate by fps
            [enc |-> [e EXCEPT !.config = config, !.panicked = TRUE],
             result |-> "panic"]
      [] OTHER ->
            [enc |-> [e EXCEPT !.config = config, !.initialized = TRUE],
             result |-> "Ok"]

(* the encoder after encode(frame), what the call returns, and key_frame   *)
(* of the EncodedFrame if it returns one                                   *)
encoder_encode(e, frame) ==
    LET counted == [e EXCEPT !.frame_count = @ + 1]
    IN  CASE ~e.initialized ->
                [enc |-> e, result |-> "EncodeFailed", key |-> FALSE]
          [] e.backend = "software" /\ frame \in {"gpu", "empty"} ->
                [enc |-> counted, result |-> "EncodeFailed", key |-> FALSE]
          [] e.backend = "software" /\ frame = "short" ->
                \* convert_.._to_i420 indexes the data by the configured size
                [enc |-> [counted EXCEPT !.panicked = TRUE],
                 result |-> "panic", key |-> FALSE]
          [] e.backend = "software" ->
                [enc |-> counted, result |-> "frame",
                 key |-> should_generate_keyframe(counted)]
          [] e.backend = "nvenc" /\ frame = "empty" ->
                [enc |-> e, result |-> "EncodeFailed", key |-> FALSE]
          [] OTHER ->
                [enc |-> counted, result |-> "frame",
                 key |-> counted.frame_count % 30 = 1]

(* SoftwareEncoder::request_idr has an empty body *)
encoder_request_idr(e) == e

encoder_set_bitrate_restart(e, bitrate) ==
    [e EXCEPT !.config.bitrate = bitrate, !.frame_count = 0]

encoder_set_bitrate(e, bitrate) ==
    IF e.backend = "software" /\ e.initialized
    THEN [e EXCEPT !.config.bitrate = bitrate,
                   !.qp = software_qp(bitrate, e.config.fps)]
    ELSE [e EXCEPT !.config.bitrate = bitrate]

EncoderCall(op, arg, frame, r) ==
    /\ ~enc.panicked
    /\ e_hist.n_calls < MaxEncoderCalls
    /\ enc' = r.enc
    /\ e_hist' =
         [op |-> op, arg |-> arg, frame |-> frame, result |-> r.result,
          key |-> r.key,
          pre |-> enc, n_calls |-> e_hist.n_calls + 1,
          frames_out |-> e_hist.frames_out + (IF r.result = "frame" THEN 1 ELSE 0),
          first_key |-> IF r.result = "frame" /\ e_hist.first_key = "none"
                        THEN (IF r.key THEN "key" ELSE "delta")
                        ELSE e_hist.first_key,
          idr |-> (op = "request_idr") \/ (e_hist.idr /\ r.result # "frame"),
          forced |-> e_hist.idr,
          set_to |-> CASE op = "set_bitrate" -> arg
                       [] op = "init" /\ r.result = "Ok" -> 0
                       [] OTHER -> e_hist.set_to]
    /\ UNCHANGED <<qvars, tvars, pvars, connecting, codec, cap, c_hist, xvars>>

EncoderInit(config) ==
    \E r \in {encoder_init(enc, config)} :
        EncoderCall("init", config.gop_length, "none",
                    [enc |-> r.enc, result |-> r.result, key |-> FALSE])

EncoderEncode(frame) ==
    \E r \in {encoder_encode(enc, frame)} : EncoderCall("encode", 0, frame, r)

EncoderRequestIdr ==
    /\ enc.backend = "software"
    /\ EncoderCall("request_idr", 0, "none",
                   [enc |-> encoder_request_idr(enc), result |-> "Ok", key |-> FALSE])

EncoderSetBitrate(bitrate) ==
    EncoderCall("set_bitrate", bitrate, "none",
                [enc |-> encoder_set_bitrate(enc, bitrate), result |-> "Ok",
                 key |-> FALSE])

ENext ==
    \/ \E config \in ConfigInputs : EncoderInit(config)
    \/ \E frame \in FrameInputs : EncoderEncode(frame)
    \/ EncoderRequestIdr
    \/ \E bitrate \in EncoderBitrateInputs : EncoderSetBitrate(bitrate)

----------------------------------------------------------------------------
(* The screen capturers.  cap is one capturer (KmsCapture, NvFBC or X11),  *)
(* the FrameRefs it has returned that are still alive, and the file        *)
(* descriptors the process has open.  A FrameRef is [id, fd, gpu]: id      *)
(* numbers the captures that returned one, fd is dmabuf_fd, -1 for None,   *)
(* gpu is gpu_ptr, 0 for None.  gpu_buffer is the device buffer of the     *)
(* NvFBC capturer, 0 for none, allocated the device memory not yet freed.  *)

MaxCapturerCalls == 5

CaptureBackends == {"kms", "nvfbc", "x11"}

(* the descriptor find_drm_device opens, and the numbers the kernel may    *)
(* give to an exported DMA-BUF                                             *)
DrmFd == 3

FdInputs == 4 .. 6

(* KmsCapture::new and its like *)
Capturer_new(backend) ==
    [backend |-> backend, initialized |-> FALSE,
     drm_fd |-> IF backend = "kms" THEN DrmFd ELSE 0 - 1,
     frames |-> {},
     open |-> IF backend = "kms" THEN {DrmFd} ELSE {},
     gpu_buffer |-> 0, allocated |-> {}]

NoCapturerCall ==
    [op |-> "new", result |-> "none", ready |-> FALSE, n_calls |-> 0,
     acquired |-> 0, closes |-> <<>>, returned |-> {}]

InitOutcomes == {"ok", "error"}

(* the device addresses cuMemAlloc may return *)
GpuInputs == {4096, 8192}

(* NvFBCCapture::allocate_gpu_buffer: the buffer held is freed, the new    *)
(* one is at addr                                                          *)
allocate_gpu_buffer(c, addr) ==
    [c EXCEPT !.allocated = (@ \ {c.gpu_buffer}) \cup {addr},
              !.gpu_buffer = addr]

CaptureOutcomes == {"ok", "get_crtc_error", "no_framebuffer", "export_error"}

(* the descriptors open after a FrameRef is dropped *)
FrameRef_drop_leak(open, f) == open

FrameRef_drop(open, f) == IF f.fd # 0 - 1 THEN open \ {f.fd} ELSE open

(* the capturer after init(), and what the call returns.  outcome is what  *)
(* the device answers; a KMS capturer whose drm_fd is closed gets errors   *)
(* NvFBC allocates its buffer at addr before it creates the session        *)
capturer_init(c, outcome, addr) ==
    CASE c.initialized -> [cap |-> c, result |-> "Ok"]
      [] outcome = "ok" /\ c.backend = "nvfbc" ->
            [cap |-> [allocate_gpu_buffer(c, addr) EXCEPT !.initialized = TRUE],
             result |-> "Ok"]
      [] c.backend = "nvfbc" ->
            [cap |-> allocate_gpu_buffer(c, addr), result |-> "Err"]
      [] outcome = "ok" /\ ~(c.backend = "kms" /\ c.drm_fd < 0) ->
            [cap |-> [c EXCEPT !.initialized = TRUE], result |-> "Ok"]
      [] OTHER -> [cap |-> c, result |-> "Err"]

(* the capturer after capture(), what the call returns, and the FrameRefs  *)
(* it returns; fd is the descriptor the kernel gives to the export         *)
capturer_capture(c, outcome, fd, id) ==
    CASE ~c.initialized ->
            [cap |-> c, result |-> "InvalidCall", returned |-> {}]
      [] c.backend = "kms" /\ c.drm_fd >= 0 /\ outcome = "ok" ->
            [cap |-> [c EXCEPT !.frames = @ \cup {[id |-> id, fd |-> fd, gpu |-> 0]},
                               !.open = @ \cup {fd}],
             result |-> "Ok", returned |-> {[id |-> id, fd |-> fd, gpu |-> 0]}]
      [] c.backend = "kms" /\ outcome = "no_framebuffer" /\ c.drm_fd >= 0 ->
            [cap |-> c, result |-> "CaptureFailed", returned |-> {}]
      [] c.backend = "kms" ->
            [cap |-> c, result |-> "DrmError", returned |-> {}]
      [] outcome = "ok" ->
            [cap |-> [c EXCEPT !.frames = @ \cup
                          {[id |-> id, fd |-> 0 - 1, gpu |-> c.gpu_buffer]}],
             result |-> "Ok",
             returned |-> {[id |-> id, fd |-> 0 - 1, gpu |-> c.gpu_buffer]}]
      [] OTHER -> [cap |-> c, result |-> "CaptureFailed", returned |-> {}]

(* NvFBCCapture::capture when the status shows another width or height:   *)
(* the buffer is allocated anew, at addr, and the frame refers to it       *)
capture_to_cuda_resized(c, addr, id) ==
    IF ~c.initialized
    THEN [cap |-> c, result |-> "InvalidCall", returned |-> {}]
    ELSE capturer_capture(allocate_gpu_buffer(c, addr), "ok", 0 - 1, id)

(* NvFBCCapture::set_resolution *)
capturer_set_resolution(c, addr) ==
    IF c.initialized THEN allocate_gpu_buffer(c, addr) ELSE c

capturer_cleanup_keep(c) ==
    [c EXCEPT !.open = @ \ {c.drm_fd}, !.drm_fd = 0 - 1,
              !.allocated = @ \ {c.gpu_buffer}, !.gpu_buffer = 0]

(* cleanup closes drm_fd (KMS), frees the device buffer (NvFBC) *)
capturer_cleanup(c) ==
    [c EXCEPT !.open = @ \ {c.drm_fd}, !.drm_fd = 0 - 1, !.initialized = FALSE,
              !.allocated = @ \ {c.gpu_buffer}, !.gpu_buffer = 0]

CapturerCall(op, c1, result, ready, returned, closes) ==
    /\ c_hist.n_calls < MaxCapturerCalls
    /\ cap' = c1
    /\ c_hist' = [op |-> op, result |-> result, ready |-> ready,
                  n_calls |-> c_hist.n_calls + 1,
                  acquired |-> c_hist.acquired + Cardinality(returned),
                  closes |-> closes, returned |-> returned]
    /\ UNCHANGED <<qvars, tvars, pvars, connecting, codec, enc, e_hist, xvars>>

CapturerInit(outcome, addr) ==
    \E r \in {capturer_init(cap, outcome, addr)} :
        CapturerCall("init", r.cap, r.result,
                     c_hist.ready \/ r.cap.initialized, {}, c_hist.closes)

CapturerCapture(outcome, fd) ==
    /\ fd \notin cap.open
    /\ \E r \in {capturer_capture(cap, outcome, fd, c_hist.acquired + 1)} :
        CapturerCall("capture", r.cap, r.result, c_hist.ready, r.returned,
                     IF r.returned = {} THEN c_hist.closes
                     ELSE Append(c_hist.closes, 0))

CapturerCaptureResized(addr) ==
    /\ cap.backend = "nvfbc"
    /\ addr \notin cap.allocated \ {cap.gpu_buffer}
    /\ \E r \in {capture_to_cuda_resized(cap, addr, c_hist.acquired + 1)} :
        CapturerCall("capture", r.cap, r.result, c_hist.ready, r.returned,
                     IF r.returned = {} THEN c_hist.closes
                     ELSE Append(c_hist.closes, 0))

CapturerSetResolution(addr) ==
    /\ cap.backend = "nvfbc"
    /\ addr \notin cap.allocated \ {cap.gpu_buffer}
    /\ CapturerCall("set_resolution", capturer_set_resolution(cap, addr), "Ok",
                    c_hist.ready, {}, c_hist.closes)

(* a FrameRef goes out of scope *)
DropFrame(f) ==
    /\ f \in cap.frames
    /\ \E open \in {FrameRef_drop(cap.open, f)} :
        CapturerCall("drop", [cap EXCEPT !.frames = @ \ {f}, !.open = open],
                     "Ok", c_hist.ready, {},
                     [c_hist.closes EXCEPT ![f.id] =
                          @ + Cardinality(cap.open \ open)])

CapturerCleanup ==
    CapturerCall("cleanup", capturer_cleanup(cap), "Ok", FALSE, {},
                 c_hist.closes)

KNext ==
    \/ \E outcome \in InitOutcomes, addr \in GpuInputs :
           CapturerInit(outcome, addr)
    \/ \E addr \in GpuInputs : CapturerCaptureResized(addr)
    \/ \E addr \in GpuInputs : CapturerSetResolution(addr)
    \/ \E outcome \in CaptureOutcomes, fd \in FdInputs :
           CapturerCapture(outcome, fd)
    \/ \E f \in cap.frames : DropFrame(f)
    \/ CapturerCleanup

----------------------------------------------------------------------------
(* The transport manager *)

MaxManagerCalls == 6

(* Option::None of primary(); the transports are numbered from 1 *)
NoTransport == 0

TransportManager_new == [transports |-> <<>>, primary_index |-> 0]

NoManagerCall == [op |-> "new", result |-> FALSE, n_calls |-> 0, n_added |-> 0]

add_transport(m, transport) ==
    [m EXCEPT !.transports = Append(@, transport)]

(* self.transports.get(self.primary_index).cloned() *)
primary(m) ==
    IF m.primary_index < Len(m.transports)
    THEN m.transports[m.primary_index + 1]
    ELSE NoTransport

failover(m) ==
    IF Len(m.transports) > 1
    THEN [manager |-> [m EXCEPT !.primary_index =
                                   (m.primary_index + 1) % Len(m.transports)],
          result |-> TRUE]
    ELSE [manager |-> m, result |-> FALSE]

(* every transport is disconnected and the vector cleared; primary_index *)
(* is left as it is                                                       *)
disconnect_all(m) == [m EXCEPT !.transports = <<>>]

ManagerCall(op, m1, result, added) ==
    /\ m_hist.n_calls < MaxManagerCalls
    /\ manager' = m1
    /\ m_hist' = [op |-> op, result |-> result, n_calls |-> m_hist.n_calls + 1,
                  n_added |-> m_hist.n_added + added]
    /\ UNCHANGED <<qvars, tvars, pvars, connecting, codec, enc, e_hist, cap,
                   c_hist, tcp>>

(* each transport added is a new one *)
AddTransport ==
    ManagerCall("add_transport", add_transport(manager, m_hist.n_added + 1),
                FALSE, 1)

Failover ==
    \E r \in {failover(manager)} :
        ManagerCall("failover", r.manager, r.result, 0)

DisconnectAll ==
    ManagerCall("disconnect_all", disconnect_all(manager), FALSE, 0)

GNext == AddTransport \/ Failover \/ DisconnectAll

----------------------------------------------------------------------------
(* transport/sshtunnel.rs : SshTunnelTransport over TCP.  The stream is    *)
(* an Arc<Mutex<TcpStream>> shared by the receive task and the senders:    *)
(* lock is who holds the mutex, recv where the receive task is ("lock":    *)
(* at stream.lock().await, "read": holding the guard at s.read().await,    *)
(* "done": ended), send where the one sender is ("lock": at                *)
(* stream.lock().await, "write": holding the guard at write_all), inbound  *)
(* the segments the peer has sent that were not read yet.                  *)

MaxTcpSends == 2

MaxPeerSends == 2

TcpSendOps == {"send_video", "send_input", "send_control"}

(* the transport after connect_tcp *)
SshTunnelTransport_connected ==
    [lock |-> "free", recv |-> "lock", send |-> "idle", op |-> "none",
     inbound |-> 0, peer_closed |-> FALSE, connected |-> TRUE,
     packets_sent |-> 0, packets_received |-> 0, n_sends |-> 0, n_peer |-> 0]

TcpStep(t1) ==
    /\ tcp' = t1
    /\ UNCHANGED <<qvars, tvars, pvars, connecting, codec, enc, e_hist, cap,
                   c_hist, manager, m_hist>>

(* the receive task takes the stream lock *)
TcpRecvLock ==
    /\ tcp.recv = "lock"
    /\ tcp.lock = "free"
    /\ TcpStep([tcp EXCEPT !.lock = "recv", !.recv = "read"])

(* s.read() returns, the guard is dropped: a segment is counted and the   *)
(* loop goes on, or the peer has closed and the task ends                  *)
TcpRecvRead ==
    /\ tcp.recv = "read"
    /\ \/ /\ tcp.inbound > 0
          /\ TcpStep([tcp EXCEPT !.lock = "free", !.recv = "lock",
                                 !.inbound = @ - 1,
                                 !.packets_received = @ + 1])
       \/ /\ tcp.inbound = 0
          /\ tcp.peer_closed
          /\ TcpStep([tcp EXCEPT !.lock = "free", !.recv = "done",
                                 !.connected = FALSE])

(* the peer sends a segment, or closes its side *)
TcpPeerSend ==
    /\ ~tcp.peer_closed
    /\ tcp.n_peer < MaxPeerSends
    /\ TcpStep([tcp EXCEPT !.inbound = @ + 1, !.n_peer = @ + 1])

TcpPeerClose ==
    /\ ~tcp.peer_closed
    /\ TcpStep([tcp EXCEPT !.peer_closed = TRUE])

(* send_video, send_input, send_control: the frame is built, then          *)
(* stream.lock().await                                                     *)
TcpSendBegin(op) ==
    /\ tcp.send = "idle"
    /\ tcp.n_sends < MaxTcpSends
    /\ TcpStep([tcp EXCEPT !.send = "lock", !.op = op, !.n_sends = @ + 1])

TcpSendLock ==
    /\ tcp.send = "lock"
    /\ tcp.lock = "free"
    /\ TcpStep([tcp EXCEPT !.lock = "send", !.send = "write"])

(* write_all returns and the guard is dropped; send_video counts the packet *)
TcpSendWrite ==
    /\ tcp.send = "write"
    /\ TcpStep([tcp EXCEPT !.lock = "free", !.send = "idle",
                           !.packets_sent = IF tcp.op = "send_video"
                                            THEN @ + 1 ELSE @])

WNext ==
    \/ TcpRecvLock
    \/ TcpRecvRead
    \/ TcpPeerSend
    \/ TcpPeerClose
    \/ \E op \in TcpSendOps : TcpSendBegin(op)
    \/ TcpSendLock
    \/ TcpSendWrite

(* the manager before any call, the tunnel connected *)
XInit ==
    /\ manager = TransportManager_new
    /\ m_hist = NoManagerCall
    /\ tcp = SshTunnelTransport_connected

(* the encoder and the capturer before any call *)
MInit ==
    /\ enc = Encoder_new("software")
    /\ e_hist = NoEncoderCall
    /\ cap = Capturer_new("kms")
    /\ c_hist = NoCapturerCall
    /\ XInit

----------------------------------------------------------------------------
(* the state of the send side after QuicTransport::new *)
PInit ==
    /\ proc = [p \in Callers |-> IdleProc]
    /\ call = [p \in Callers |-> NoCall]
    /\ sent = [video |-> <<>>, input |-> <<>>, control |-> 0]
    /\ net = NetworkStats_default
    /\ locks = [input |-> 0, stats |-> 0]
    /\ s_hist = [n_calls |-> 0, built |-> <<>>,
                 published |-> NetworkStats_default]
    /\ connecting = [active |-> FALSE, elapsed |-> 0]

NoCodec ==
    [stage |-> "none", packet |-> NoPacket, buf |-> <<>>,
     decoded |-> [ok |-> FALSE, err |-> "none", packet |-> NoPacket]]

SInit == PInit /\ codec = NoCodec /\ MInit

----------------------------------------------------------------------------
(* connect, with the time the handshake takes.  The call awaits            *)
(* endpoint.connect_with(..) and the three open_bi; elapsed counts the     *)
(* seconds it has been waiting.                                            *)

ConnectBegin ==
    /\ ~connecting.active
    /\ AllIdle
    /\ t_hist.n_connects < MaxConnects
    /\ connecting' = [active |-> TRUE, elapsed |-> 0]
    /\ UNCHANGED <<qvars, tvars, pvars, codec, mvars>>

(* one more second without an answer from the peer *)
ConnectElapse ==
    /\ connecting.active
    /\ quic.endpoint /\ quic.client_config
    /\ connecting.elapsed < MaxWait
    /\ connecting' = [connecting EXCEPT !.elapsed = @ + 1]
    /\ UNCHANGED <<qvars, tvars, pvars, codec, mvars>>

ConnectEnd(outcome) ==
    /\ connecting.active
    /\ ConnectReturn(outcome)
    /\ connecting' = [active |-> FALSE, elapsed |-> 0]

CNext ==
    \/ ConnectBegin
    \/ ConnectElapse
    \/ \E o \in ConnectOutcomes : ConnectEnd(o)
    \/ \E g \in Gens, ok \in BOOLEAN : ServerRespond(g, ok)
    \/ \E g \in Gens : ServerPong(g)
    \/ \E g \in Gens : PeerClose(g)
    \/ \E g \in Gens : ControlTaskRead(g)
    \/ \E g \in Gens, k \in TaskKinds : ReceiveTaskExit(g, k)
    \/ \E g \in Gens : StatsTaskTick(g)
    \/ ~connecting.active /\ RecvControl
    \/ ~connecting.active /\ Disconnect

----------------------------------------------------------------------------
(* recv_video, recv_input_ack, recv_control: what a call made now would    *)
(* answer.  Without a receiver NotConnected; a queued packet; an error     *)
(* once the task holding the sender has exited; else the call waits.  The  *)
(* peer sends control packets only, the other two queues stay empty.       *)
recv(k) ==
    IF quic.rx = 0 THEN "NotConnected"
    ELSE IF k = "control" /\ control_chan[quic.rx] # <<>> THEN "Ok"
    ELSE IF [gen |-> quic.rx, kind |-> k] \in tasks THEN "pending"
    ELSE "Connection"

----------------------------------------------------------------------------
(* VideoPacket::encode and VideoPacket::decode applied to a packet *)

ByteInputs == {0, 1, 255}

DataInputs == UNION {[1..n -> ByteInputs] : n \in 0..MaxData}

VideoPacketInputs ==
    [seq : {0, 42, 16909060, 2147483647},
     timestamp : {<<0, 0>>, <<0, 12345678>>, <<2147483647, 16909060>>},
     data : DataInputs,
     key_frame : BOOLEAN,
     width : {0, 1920},
     height : {1080},
     codec : {VideoCodec[i] : i \in 1..4}]

Encode ==
    /\ codec.stage = "packet"
    /\ codec' = [codec EXCEPT !.stage = "wire",
                              !.buf = VideoPacket_encode(codec.packet)]
    /\ UNCHANGED <<qvars, tvars, pvars, connecting, mvars>>

Decode ==
    /\ codec.stage = "wire"
    /\ codec' = [codec EXCEPT !.stage = "decoded",
                              !.decoded = VideoPacket_decode(codec.buf)]
    /\ UNCHANGED <<qvars, tvars, pvars, connecting, mvars>>

(* the codec bytes a peer may send: the four defined ones and others *)
CodecByteInputs == {0, 3, 4, 255}

(* the packet arrives from a peer that wrote b as its codec byte *)
ReceiveFrom(b) ==
    /\ codec.stage = "packet"
    /\ codec' = [codec EXCEPT !.stage = "wire",
                              !.buf = [VideoPacket_encode(codec.packet)
                                           EXCEPT ![HEADER_SIZE] = b]]
    /\ UNCHANGED <<qvars, tvars, pvars, connecting, mvars>>

(* the lengths a buffer may be cut to on its way *)
TruncatedInputs == {0, 10, HEADER_SIZE - 2, HEADER_SIZE - 1, HEADER_SIZE,
                    HEADER_SIZE + 1}

(* the first n bytes of the encoded packet arrive, and no more *)
ReceiveTruncated(n) ==
    /\ codec.stage = "packet"
    /\ n < Len(VideoPacket_encode(codec.packet))
    /\ codec' = [codec EXCEPT !.stage = "wire",
                              !.buf = SubSeq(VideoPacket_encode(codec.packet), 1, n)]
    /\ UNCHANGED <<qvars, tvars, pvars, connecting, mvars>>

----------------------------------------------------------------------------
(* Specifications *)

(* the controller, every public call, any timing; the transport idle *)
Init == QInit /\ TInit /\ SInit /\ quic.client_config

Next == QNext

Spec == Init /\ [][Next]_vars

(* scenario S1: 10 Mbps defaults, excellent statistics on every tick *)
InitS1 ==
    /\ now = 0
    /\ controller = AdaptiveBitrateController_new(10000000, 0)
    /\ panicked = FALSE
    /\ HistInit
    /\ TInit
    /\ SInit
    /\ quic.client_config

NextS1 ==
    \E d \in TickSteps \cup {0} :
        /\ d = 0 => n_updates = 0
        /\ Tick(d, StatsExcellent)

SpecS1 == InitS1 /\ [][NextS1]_vars

(* update_stats calls alone, at any distance, on a controller built with   *)
(* any of the initial bitrates                                             *)
NextCalls ==
    \/ \E d \in TimeSteps : Advance(d)
    \/ \E s \in StatsInputs : n_updates < MaxCalls /\ UpdateStatsAt(s, now)

SpecCalls == Init /\ [][NextCalls]_vars

(* scenario S2: 20 Mbps, congested statistics on every tick, ticks at any  *)
(* distance                                                                *)
InitS2 ==
    /\ now = 0
    /\ controller = AdaptiveBitrateController_new(20000000, 0)
    /\ panicked = FALSE
    /\ HistInit
    /\ TInit
    /\ SInit
    /\ quic.client_config

NextS2 == \E d \in TickSteps \cup {0, 250} : Tick(d, StatsCongested)

SpecS2 == InitS2 /\ [][NextS2]_vars

(* the QUIC transport and its peer; the controller idle *)
InitQuic ==
    /\ now = 0
    /\ controller = AdaptiveBitrateController_new(20000000, 0)
    /\ panicked = FALSE
    /\ HistInit
    /\ TInit
    /\ SInit

NextQuic == TNext

SpecQuic == InitQuic /\ [][NextQuic]_vars

(* the send side of a transport: any callers, any answers of the network *)
SpecSend == InitQuic /\ [][SNext]_vars

(* connect calls that wait for the peer *)
SpecConnect == InitQuic /\ [][CNext]_vars

(* the video packet codec on any packet *)
InitCodec ==
    /\ now = 0
    /\ controller = AdaptiveBitrateController_new(20000000, 0)
    /\ panicked = FALSE
    /\ HistInit
    /\ TInit
    /\ quic.client_config
    /\ PInit
    /\ MInit
    /\ \E p \in VideoPacketInputs : codec = [NoCodec EXCEPT !.stage = "packet",
                                                            !.packet = p]

NextCodec == Encode \/ Decode

SpecCodec == InitCodec /\ [][NextCodec]_vars

(* scenario S1 with a set_qp at any point *)
NextProbe == NextS1 \/ \E q \in QpInputs : SetQp(q)

SpecProbe == InitS1 /\ [][NextProbe]_vars

(* the bitrate limits changed and the bitrate set, between update_stats    *)
(* calls at any distance                                                   *)
NextLimits ==
    \/ \E d \in TimeSteps : Advance(d)
    \/ \E s \in StatsInputs : UpdateStats(s)
    \/ \E b \in LimitInputs : LimitSetMin(b)
    \/ \E b \in LimitInputs : LimitSetMax(b)
    \/ \E b \in BitrateInputs : LimitSetBitrate(b)

SpecLimits == InitS2 /\ [][NextLimits]_vars

(* healthy ticks for ever after some lossy ones; the stats task ticks on  *)
(* a timer, so a tick that can be made is made                             *)
NextRecover == LossyTick \/ HealthyTick

SpecRecover == InitS2 /\ [][NextRecover]_vars /\ WF_vars(HealthyTick)

(* the TCP tunnel: the runtime runs every task that can go on, and the    *)
(* mutex is handed to its waiters in turn; the peer sends when it likes    *)
SpecTcp ==
    /\ InitS2
    /\ [][WNext]_vars
    /\ WF_vars(TcpRecvLock)
    /\ WF_vars(TcpRecvRead)
    /\ WF_vars(TcpSendWrite)
    /\ SF_vars(TcpSendLock)

(* the encoder callback and the calls that change the settings *)
NextCallback ==
    \/ \E d \in TimeSteps : Advance(d)
    \/ \E s \in StatsInputs : UpdateStats(s)
    \/ CallbackRegister
    \/ \E b \in BitrateInputs : CallbackSetBitrate(b)
    \/ \E f \in FpsInputs : CallbackSetFps(f)
    \/ \E q \in QpInputs : CallbackSetQp(q)
    \/ CallbackReset

SpecCallback == InitS2 /\ [][NextCallback]_vars

(* update_stats ticks with any statistics, at any of the distances *)
NextTicks == \E d \in TickSteps, s \in StatsInputs : Tick(d, s)

SpecTicks == InitS2 /\ [][NextTicks]_vars

(* decoding what a peer sent *)
NextWire == (\E b \in CodecByteInputs : ReceiveFrom(b)) \/ Decode

SpecWire == InitCodec /\ [][NextWire]_vars

(* decoding what arrived cut short *)
NextTruncated == (\E n \in TruncatedInputs : ReceiveTruncated(n)) \/ Decode

SpecTruncated == InitCodec /\ [][NextTruncated]_vars

(* any calls of an encoder of either kind *)
InitEncoder ==
    /\ now = 0
    /\ controller = AdaptiveBitrateController_new(20000000, 0)
    /\ panicked = FALSE
    /\ HistInit
    /\ TInit
    /\ quic.client_config
    /\ PInit
    /\ codec = NoCodec
    /\ \E backend \in Backends :
          /\ enc = Encoder_new(backend)
          /\ e_hist = [NoEncoderCall EXCEPT !.pre = Encoder_new(backend)]
    /\ cap = Capturer_new("kms")
    /\ c_hist = NoCapturerCall
    /\ XInit

SpecEncoder == InitEncoder /\ [][ENext]_vars

(* any calls of a capturer of any kind, and the drops of its frames *)
InitCapture ==
    /\ now = 0
    /\ controller = AdaptiveBitrateController_new(20000000, 0)
    /\ panicked = FALSE
    /\ HistInit
    /\ TInit
    /\ quic.client_config
    /\ PInit
    /\ codec = NoCodec
    /\ enc = Encoder_new("software")
    /\ e_hist = NoEncoderCall
    /\ \E backend \in CaptureBackends : cap = Capturer_new(backend)
    /\ c_hist = NoCapturerCall
    /\ XInit

SpecCapture == InitCapture /\ [][KNext]_vars

(* any calls of a transport manager *)
SpecManager == InitS2 /\ [][GNext]_vars

TypeOK ==
    /\ controller.state \in {"Stable", "Degrading", "Probing", "Recovering"}
    /\ now >= controller.last_adjustment

----------------------------------------------------------------------------
(* Properties of the quality controller *)

(* the most recent call was an update_stats whose evaluation passed the    *)
(* rate limiter, made in state st                                          *)
Evaluated(st) ==
    /\ last.op = "update_stats"
    /\ last.passed
    /\ last.pre.state = st

(* the statistics that evaluation read: the monitor is not touched by it   *)
EvalStats == get_stats(controller.monitor)

(* c has the settings, target and counters of d *)
SameQuality(c, d) ==
    /\ c.current_settings = d.current_settings
    /\ c.target_bitrate = d.target_bitrate
    /\ c.improvement_count = d.improvement_count
    /\ c.degradation_count = d.degradation_count
    /\ c.delivered = d.delivered

(* C1: two adjustments (a state transition or a reduce/increase step) are  *)
(* never less than 500 ms apart, and an update_stats arriving less than    *)
(* 500 ms after the previous adjustment changes neither state nor settings *)
C1_RateLimiter ==
    /\ decision_gap # -1 => decision_gap >= 500
    /\ (last.op = "update_stats" /\ last.since # -1 /\ last.since < 500)
          => /\ controller.state = last.pre.state
             /\ SameQuality(controller, last.pre)

C1_Witness ==
    /\ decision_gap # -1
    /\ last.op = "update_stats"
    /\ last.since # -1
    /\ last.since < 500
    /\ ~panicked

(* C2: the settings stay inside the configured envelopes: min_bitrate <=   *)
(* bitrate <= max_bitrate, 15 <= fps <= 144, 10 <= qp <= 51                *)
C2_Envelope ==
    /\ controller.min_bitrate <= controller.current_settings.bitrate
    /\ controller.current_settings.bitrate <= controller.max_bitrate
    /\ controller.current_settings.fps >= 15
    /\ controller.current_settings.fps <= 144
    /\ controller.current_settings.qp >= 10
    /\ controller.current_settings.qp <= 51

C4_Degrading ==
    Evaluated("Degrading") =>
        IF RttGt(EvalStats, 150) \/ LossGt(EvalStats, 5, 100)
        THEN /\ controller.state = "Degrading"
             /\ SameQuality(controller, reduce_quality_aggressive(last.pre))
             /\ controller.degradation_count = last.pre.degradation_count + 1
        ELSE IF RttLt(EvalStats, 80) /\ LossLt(EvalStats, 1, 100)
        THEN /\ controller.state = "Stable"
             /\ SameQuality(controller, last.pre)
        ELSE /\ controller.state = "Degrading"
             /\ SameQuality(controller, last.pre)

C4_Witness ==
    /\ Evaluated("Degrading")
    /\ controller.state = "Stable"
    /\ controller.degradation_count = 1

(* C5: a passing evaluation in Probing applies one increase_quality step   *)
(* and stays when rtt < 30 ms and jitter < 5 ms; otherwise it returns to   *)
(* Stable and the most recent increase is undone                           *)
C5_Probing ==
    Evaluated("Probing") =>
        IF RttLt(EvalStats, 30) /\ JitterLt(EvalStats, 5)
        THEN /\ controller.state = "Probing"
             /\ SameQuality(controller, increase_quality(last.pre))
        ELSE /\ controller.state = "Stable"
             /\ Snapshot(controller) = pre_increase

(* C6: from Stable, two or more consecutive evaluations that see RTT >     *)
(* 150 ms and loss > 5% leave the controller in Degrading with a target    *)
(* of at most 0.7 times the baseline                                       *)
C6_Sustained ==
    run.n >= 2 =>
        /\ controller.state = "Degrading"
        /\ 10 * controller.target_bitrate <= 7 * run.base

(* C6 as amended: ... with a target of at most 0.7 times the baseline or   *)
(* at most min_bitrate, whichever is larger                                *)
C6_SustainedClamped ==
    run.n >= 2 =>
        /\ controller.state = "Degrading"
        /\ \/ 10 * controller.target_bitrate <= 7 * run.base
           \/ controller.target_bitrate <= controller.min_bitrate

C6_Witness ==
    /\ run.n >= 2
    /\ run.base = 20000000
    /\ controller.target_bitrate = 12600000

(* C8: from Stable with the rate limiter expired, one update_stats with    *)
(* rtt >= 200 ms and loss 10% leaves Degrading with fps = 30 and qp >= 35  *)
C8_Emergency ==
    (Evaluated("Stable") /\ last.stats.rtt_ms >= 200 /\ last.stats.loss_rate = 1000)
        => /\ controller.state = "Degrading"
           /\ controller.current_settings.fps = 30
           /\ controller.current_settings.qp >= 35

(* C7: scenario S2; from the second adjustment tick on fps = 30, qp >= 35  *)
(* and bitrate <= 14 Mbps, and the resolution is below 1920x1080 whenever  *)
(* the bitrate is below 10 Mbps                                            *)
C7_Congested ==
    /\ controller.degradation_count >= 2 =>
           /\ controller.current_settings.fps = 30
           /\ controller.current_settings.qp >= 35
           /\ controller.current_settings.bitrate <= 14000000
    /\ controller.current_settings.bitrate < 10000000
           => controller.current_settings.resolution[1] < 1920

(* C7, amended: scenario S2; from the second adjustment tick on fps = 30,  *)
(* qp >= 35 and bitrate <= 14 Mbps, and the resolution is below 1920x1080  *)
(* whenever the bitrate is below 5 Mbps                                    *)
C7_CongestedAggressive ==
    /\ controller.degradation_count >= 2 =>
           /\ controller.current_settings.fps = 30
           /\ controller.current_settings.qp >= 35
           /\ controller.current_settings.bitrate <= 14000000
    /\ controller.current_settings.bitrate < 5000000
           => controller.current_settings.resolution[1] < 1920

C7_Witness ==
    /\ controller.degradation_count >= 2
    /\ controller.state = "Degrading"
    /\ controller.current_settings.fps = 30
    /\ controller.current_settings.bitrate < 5000000
    /\ controller.current_settings.resolution = <<854, 480>>

(* C9: scenario S1; the controller is in Probing from the second tick on,  *)
(* the bitrate is at least 10.5 Mbps from the fourth tick on, resolution   *)
(* and fps stay 1920x1080 and 60                                           *)
C9_Excellent ==
    /\ n_updates >= 2 => controller.state = "Probing"
    /\ n_updates >= 4 => controller.current_settings.bitrate >= 10500000
    /\ controller.current_settings.resolution = <<1920, 1080>>
    /\ controller.current_settings.fps = 60

C9_Witness ==
    /\ n_updates = 4
    /\ controller.state = "Probing"
    /\ controller.current_settings.bitrate >= 10500000

(* the most recent call was an update_stats that took the aggressive       *)
(* reduction: evaluated in Degrading, it counted a degradation             *)
AggressiveStep ==
    /\ Evaluated("Degrading")
    /\ controller.degradation_count # last.pre.degradation_count

(* t is 0.7 times p, to the bit/s *)
Near07(p, t) == 10 * t - 7 * p \in -9..9

(* C28: an aggressive reduction sets the target to 0.7 times its previous  *)
(* value, fps to 30 and qp to 35, and the resolution to 854x480 exactly    *)
(* when the new target is below 5 Mbps                                     *)
C28_Aggressive ==
    AggressiveStep =>
        /\ Near07(last.pre.target_bitrate, controller.target_bitrate)
        /\ controller.current_settings.fps = 30
        /\ controller.current_settings.qp = 35
        /\ controller.current_settings.resolution =
              IF controller.target_bitrate < 5000000 THEN <<854, 480>>
              ELSE last.pre.current_settings.resolution

(* C28, amended: ... sets the target to 0.7 times its previous value or to *)
(* min_bitrate, whichever is larger, ...                                   *)
C28_AggressiveClamped ==
    AggressiveStep =>
        /\ \/ /\ Near07(last.pre.target_bitrate, controller.target_bitrate)
              /\ controller.target_bitrate >= controller.min_bitrate
           \/ /\ controller.target_bitrate = controller.min_bitrate
              /\ 10 * controller.min_bitrate >= 7 * last.pre.target_bitrate - 9
        /\ controller.current_settings.bitrate = controller.target_bitrate
        /\ controller.current_settings.fps = 30
        /\ controller.current_settings.qp = 35
        /\ controller.current_settings.resolution =
              IF controller.target_bitrate < 5000000 THEN <<854, 480>>
              ELSE last.pre.current_settings.resolution

C28_Witness ==
    /\ AggressiveStep
    /\ last.pre.target_bitrate = 2250000
    /\ controller.target_bitrate = 2000000
    /\ last.pre.current_settings.resolution # <<854, 480>>
    /\ controller.current_settings.resolution = <<854, 480>>

(* the most recent call was an update_stats that took an increase step *)
IncreaseStep ==
    /\ last.op = "update_stats"
    /\ last.passed
    /\ controller.improvement_count # last.pre.improvement_count

(* C29: of the increase steps that follow one another, every third lowers  *)
(* qp by one, but not below 20, and restarts the count; the others leave   *)
(* qp as it is                                                             *)
C29_QpEveryThird ==
    IncreaseStep =>
        IF last.pre.improvement_count = 2
        THEN /\ controller.improvement_count = 0
             /\ controller.current_settings.qp =
                   IF last.pre.current_settings.qp > 20
                   THEN last.pre.current_settings.qp - 1
                   ELSE last.pre.current_settings.qp
        ELSE /\ controller.improvement_count = last.pre.improvement_count + 1
             /\ controller.current_settings.qp = last.pre.current_settings.qp

(* C30: no call of the controller panics, whatever the limits were set to  *)
C30_NeverPanics == ~panicked

----------------------------------------------------------------------------
(* Properties of the transport *)

(* C10: the transport is Connected (connect returned Ok and the connected  *)
(* flag is set) only after a ConnectResponse with success = true was       *)
(* received on that connection                                             *)
C10_ConnectedAfterResponse ==
    (quic.connected /\ quic.connection # 0)
        => t_hist.response[quic.connection] = "success"

(* the most recent call of caller p was one of the three send methods *)
SendOps == {"send_video", "send_input", "send_control"}

(* C11: a send_video, send_input or send_control made while the transport  *)
(* is not Connected (never connected, or after disconnect) returns         *)
(* NotConnected and hands nothing to the network                           *)
C11_SendNotConnected ==
    \A p \in Callers :
        (call[p].op \in SendOps /\ ~call[p].connected)
            => /\ call[p].result = "NotConnected"
               /\ call[p].wrote = 0

(* C12: on a connected transport a datagram or stream write failure inside *)
(* send_video is not returned to the caller: the call returns Ok and the   *)
(* failure is counted                                                      *)
C12_VideoBestEffort ==
    \A p \in Callers :
        (call[p].op = "send_video" /\ call[p].connected /\ call[p].failed)
            => /\ call[p].result = "Ok"
               /\ net.packets_lost > 0

(* C13: a send_input or send_control that does not hand its whole packet   *)
(* to the reliable stream (write error, or no stream) returns an error     *)
C13_ReliableOrError ==
    \A p \in Callers :
        (call[p].op \in {"send_input", "send_control"} /\ ~call[p].reliable)
            => call[p].result # "Ok"

timeout_secs == 10

(* C14: connect terminates: a handshake that has not completed within      *)
(* timeout_secs ends the call, so a pending connect has never waited       *)
(* longer than that                                                        *)
C14_ConnectTimeout ==
    connecting.active => connecting.elapsed <= timeout_secs

ReceiveKinds == {"video", "input_ack", "control"}

(* C15: when the session is lost while Connected and the receive tasks     *)
(* have ended on their failed reads, the transport is Closed without a     *)
(* disconnect call: the connected flag is false, which is what lets the    *)
(* statistics task end                                                     *)
C15_SessionLost ==
    \A g \in Gens :
        (/\ quic.connection = g
         /\ server[g].closed
         /\ \A k \in ReceiveKinds : [gen |-> g, kind |-> k] \notin tasks)
            => ~quic.connected

(* a task that is still running leaves its loop at its next step *)
CanExit(t) ==
    IF t.kind = "stats" THEN ~quic.connected ELSE ShutdownReady(t.gen)

(* C16: after disconnect, once the tasks have exited, every recv_video,    *)
(* recv_input_ack and recv_control returns an error                        *)
C16_RecvErrors ==
    (~quic.endpoint /\ tasks = {})
        => \A k \in ReceiveKinds : recv(k) \in {"NotConnected", "Connection"}

(* C16, amended: after disconnect every task still running leaves its loop *)
(* at its next step, and once they have exited no recv call waits: it      *)
(* returns a packet queued before the disconnect, or an error              *)
C16_RecvTerminates ==
    ~quic.endpoint
        => /\ \A t \in tasks : CanExit(t)
           /\ tasks = {} => \A k \in ReceiveKinds : recv(k) # "pending"

C16_Witness ==
    /\ ~quic.endpoint
    /\ t_hist.n_connects >= 1
    /\ tasks = {}
    /\ recv("video") = "Connection"
    /\ recv("control") = "Ok"

(* C17: the chunks of send_input frames reach the input stream in the      *)
(* order of their sequence numbers, no frame inside another                *)
C17_InputOrder ==
    \A i, j \in 1..Len(sent.input) :
        i < j => sent.input[i].seq <= sent.input[j].seq

(* C18: the video packets built by successive send_video calls carry       *)
(* sequence numbers that go up by exactly one, whatever became of the send *)
C18_VideoSeq ==
    \A i \in 1..Len(s_hist.built) - 1 :
        s_hist.built[i + 1] = s_hist.built[i] + 1

C18_Witness ==
    /\ Len(s_hist.built) >= 2
    /\ s_hist.built[2] = 1
    /\ \E p \in Callers : /\ call[p].op = "send_video"
                          /\ call[p].result = "Connection"

(* C19: a value returned by stats() is the snapshot last published by a    *)
(* completed update: never a half-made update, never a default put in its  *)
(* place                                                                   *)
C19_StatsSnapshot ==
    \A p \in Callers :
        call[p].op = "stats" => call[p].snapshot = call[p].published

(* C20: decode(encode(p)) succeeds and equals p in every field *)
C20_RoundTrip ==
    codec.stage = "decoded"
        => /\ codec.decoded.ok
           /\ codec.decoded.packet = codec.packet

C20_Witness ==
    /\ codec.stage = "decoded"
    /\ codec.decoded.ok
    /\ codec.packet.seq = 2147483647
    /\ codec.packet.codec = "AV1"
    /\ codec.packet.key_frame
    /\ Len(codec.packet.data) = 2
    /\ codec.decoded.packet.data = codec.packet.data

(* C21: decoding a buffer whose codec byte is none of 0..3 returns         *)
(* InvalidPacket and no VideoPacket                                        *)
C21_UnknownCodec ==
    (codec.stage = "decoded" /\ codec.buf[HEADER_SIZE] \notin 0..3)
        => /\ ~codec.decoded.ok
           /\ codec.decoded.err = "InvalidPacket"

----------------------------------------------------------------------------
(* Properties of the encoders *)

(* C22: whatever calls were made since the encoder was created, calls that *)
(* returned errors included, the first EncodedFrame it returns is a key    *)
(* frame                                                                   *)
C22_FirstFrameKey == e_hist.first_key # "delta"

(* C23: the first frame emitted after a request for an IDR frame is a key  *)
(* frame, whatever the GOP length and the frame number                     *)
C23_ForcedIdr ==
    (e_hist.op = "encode" /\ e_hist.result = "frame" /\ e_hist.forced)
        => e_hist.key

(* C24: set_bitrate(b) on an initialized encoder leaves it initialized and *)
(* keeps the frame counter and the GOP length, and b is the configured     *)
(* bitrate from then on; an encode of a frame with CPU data of the         *)
(* configured size made after it returns a frame                           *)
C24_SetBitrate ==
    /\ (e_hist.op = "set_bitrate" /\ e_hist.pre.initialized)
          => /\ enc.initialized
             /\ enc.frame_count = e_hist.pre.frame_count
             /\ enc.config.gop_length = e_hist.pre.config.gop_length
             /\ enc.config.fps = e_hist.pre.config.fps
             /\ enc.config.bitrate = e_hist.arg
    /\ (e_hist.op = "encode" /\ e_hist.pre.initialized /\ e_hist.set_to # 0)
          => /\ enc.config.bitrate = e_hist.set_to
             /\ enc.initialized
             /\ e_hist.frame = "data" => /\ e_hist.result = "frame"
                                         /\ enc.frame_count =
                                                e_hist.pre.frame_count + 1

C24_Witness ==
    /\ e_hist.op = "encode"
    /\ e_hist.frame = "data"
    /\ e_hist.result = "frame"
    /\ e_hist.set_to = 5000000
    /\ enc.config.bitrate = 5000000
    /\ enc.frame_count = 2
    /\ enc.backend = "software"

(* C25: init on an initialized encoder returns InvalidConfig and changes   *)
(* nothing                                                                 *)
C25_DoubleInit ==
    (e_hist.op = "init" /\ e_hist.pre.initialized)
        => /\ e_hist.result = "InvalidConfig"
           /\ enc = e_hist.pre

----------------------------------------------------------------------------
(* Properties of the capturers *)

(* the FrameRef of capture number id is alive *)
Alive(id) == \E f \in cap.frames : f.id = id

(* C26: with KMS, the descriptor of every FrameRef returned is open while  *)
(* the FrameRef is alive and has been closed exactly once when it has been *)
(* dropped, and the FrameRefs alive hold different descriptors             *)
C26_DmabufClosedOnce ==
    cap.backend = "kms"
        => /\ \A id \in 1..c_hist.acquired :
                 c_hist.closes[id] = IF Alive(id) THEN 0 ELSE 1
           /\ \A f \in cap.frames : f.fd \in cap.open
           /\ \A f, g \in cap.frames : f.fd = g.fd => f = g

C26_Witness ==
    /\ cap.backend = "kms"
    /\ c_hist.op = "drop"
    /\ c_hist.acquired = 2
    /\ c_hist.closes = <<1, 0>>
    /\ Cardinality(cap.frames) = 1
    /\ Cardinality(cap.open) = 2

(* C27: capture on a capturer that is not initialized (never initialized,  *)
(* init failed, or cleaned up since) returns InvalidCall and no FrameRef   *)
C27_CaptureUninitialized ==
    (c_hist.op = "capture" /\ ~c_hist.ready)
        => /\ c_hist.result = "InvalidCall"
           /\ c_hist.returned = {}
           /\ c_hist.acquired = Len(c_hist.closes)

C27_Witness ==
    /\ c_hist.op = "capture"
    /\ ~c_hist.ready
    /\ c_hist.acquired = 1
    /\ c_hist.result = "InvalidCall"

(* C37: with NvFBC, the device buffer of every FrameRef alive is still    *)
(* allocated, and the FrameRefs alive refer to different buffers           *)
C37_GpuBufferOwned ==
    cap.backend = "nvfbc"
        => /\ \A f \in cap.frames : f.gpu \in cap.allocated
           /\ \A f, g \in cap.frames : f.gpu = g.gpu => f = g

----------------------------------------------------------------------------
(* Properties of the settings *)

ChangingOps == {"update_stats", "set_bitrate", "set_fps", "set_qp", "reset"}

(* C38: with a callback registered, after a call that changed the current *)
(* settings the settings last delivered to the callback are the current    *)
(* ones                                                                    *)
C38_CallbackCurrent ==
    (/\ last.op \in ChangingOps
     /\ last.pre.encoder_callback
     /\ controller.current_settings # last.pre.current_settings)
        => controller.delivered = <<controller.current_settings>>

(* C39: an update_stats call made 500 ms or more after the last           *)
(* adjustment, on statistics for which the evaluation adjusts, adjusts     *)
C39_NoRestart ==
    (/\ last.op = "update_stats"
     /\ ~panicked
     /\ last.since >= adjustment_interval
     /\ Adjusted(last.pre, evaluate_state(last.pre, get_stats(last.pre.monitor))))
        => Adjusted(last.pre, controller)

(* the last call was an update_stats that ran reduce_quality or           *)
(* reduce_quality_aggressive                                               *)
DegradationStep ==
    /\ last.op = "update_stats"
    /\ controller.degradation_count # last.pre.degradation_count

(* C40: a degradation step does not lower qp and does not raise bitrate,  *)
(* fps or resolution                                                       *)
C40_NeverImproves ==
    DegradationStep
        => /\ controller.current_settings.qp >= last.pre.current_settings.qp
           /\ controller.current_settings.bitrate
                  <= last.pre.current_settings.bitrate
           /\ controller.current_settings.fps <= last.pre.current_settings.fps
           /\ controller.current_settings.resolution[1]
                  <= last.pre.current_settings.resolution[1]
           /\ controller.current_settings.resolution[2]
                  <= last.pre.current_settings.resolution[2]

(* C34: with healthy statistics on every tick after a period of loss, a  *)
(* controller in Degrading eventually returns to Stable                    *)
C34_Recovers == (controller.state = "Degrading") ~> (controller.state = "Stable")

----------------------------------------------------------------------------
(* Properties of the TCP tunnel *)

(* C35: a send that waits for the stream lock completes, whether or not   *)
(* the peer sends anything                                                 *)
C35_SendCompletes == (tcp.send = "lock") ~> (tcp.send = "idle")

----------------------------------------------------------------------------
(* Properties of the statistics *)

(* C31: the loss rate the monitor reports counts the packets of the last   *)
(* second only: more than a second after the last loss it is zero          *)
C31_LossWindow ==
    (last.loss_at # -1 /\ now - last.loss_at > 1000)
        => calculate_loss_rate(controller.monitor)[1] = 0

(* C32: once a Pong has been read on the connection, the rtt_ms of the     *)
(* transport's statistics is the round trip time computed from it          *)
C32_PongRtt ==
    t_hist.pong_rtt # 0 => net.rtt_ms = t_hist.pong_rtt

----------------------------------------------------------------------------
(* Properties of the transport manager *)

(* the transports of a manager, as a set *)
Managed(m) == {m.transports[i] : i \in 1 .. Len(m.transports)}

(* C33: a manager with no transports has no primary, and a manager with   *)
(* transports has one of them as its primary                               *)
C33_PrimaryManaged ==
    /\ Len(manager.transports) = 0 => primary(manager) = NoTransport
    /\ Len(manager.transports) > 0 => primary(manager) \in Managed(manager)

----------------------------------------------------------------------------
(* Properties of decoding *)

(* C36: decode of a buffer shorter than the header, or shorter than the   *)
(* header and the data it announces, returns InvalidPacket                 *)
C36_ShortBuffer ==
    (/\ codec.stage = "decoded"
     /\ Len(codec.buf) < Len(VideoPacket_encode(codec.packet)))
        => ~codec.decoded.ok /\ codec.decoded.err = "InvalidPacket"

====
